---- MODULE Spec2Model ----
(***************************************************************************)
(* ShellShade theme translation layer: the theme-file parsers              *)
(* (main/services/parsers), the Windows Terminal settings merge and the    *)
(* PowerShell profile injection of the CLI, and the installers of the main *)
(* process and of the CLI.                                                 *)
(*                                                                         *)
(* Text that the code inspects character by character (hex colours) is a   *)
(* sequence of one-character strings.  Names and paths are sequences of    *)
(* string tokens.                                                          *)
(***************************************************************************)
EXTENDS Integers, Sequences, FiniteSets, TLC

VARIABLES
    filePath,      \* parsers: the path handed to parseThemeFile
    fileExists,    \* parsers: whether the path names a readable file
    fileContent,   \* parsers: what the file's bytes are
    parseOut,      \* parsers: the returned ParsedTheme or the thrown Error
    invoked,       \* parsers: the parser functions that were called
    bytesRead,     \* parsers: whether fs was asked for the file (existsSync/readFileSync)
    wtFile,        \* Windows Terminal: settings.json on disk
    wtLast,        \* Windows Terminal: the last applyToWindowsTerminal call, its result and
                   \* how many schemes of that name the document held before it
    psFile,        \* PowerShell: Microsoft.PowerShell_profile.ps1 on disk
    psLast,        \* PowerShell: the last applyToPowerShell call and its result
    disk,          \* installers: the files written, as [path, content] records
    dirs,          \* installers: the directories that exist
    os,            \* installers: scripts executed and what they changed in the terminals
    instLast,      \* installers: the last installer call, how it ended, the steps that
                   \* failed and were done in it, and the state it started from
    race,          \* concurrent runs: each process's position in its install and
                   \* what it has read
    cli,           \* CLI: one run of the shellshade command: the platform, the
                   \* terminal detected at start-up, the arguments and what the
                   \* apply command made of them
    dbThemes,      \* import: the rows of the themes table with their colour rows
    impLast        \* import: the last FILES_IMPORT / FILES_DRAG_IMPORT call, the
                   \* table it started from and how it ended

parseVars == <<filePath, fileExists, fileContent, parseOut, invoked, bytesRead>>
wtVars == <<wtFile, wtLast>>
psVars == <<psFile, psLast>>
instVars == <<disk, dirs, os, instLast>>
cliVars == <<cli>>
raceVars == <<race>>
impVars == <<dbThemes, impLast>>
vars == <<filePath, fileExists, fileContent, parseOut, invoked, bytesRead,
          wtFile, wtLast, psFile, psLast, disk, dirs, os, instLast, cli, race,
          dbThemes, impLast>>

(***************************************************************************)
(* Characters and hex colours                                              *)
(***************************************************************************)
HexLower == {"0", "1", "2", "3", "4", "5", "6", "7", "8", "9",
             "a", "b", "c", "d", "e", "f"}
HexUpper == {"A", "B", "C", "D", "E", "F"}

\* [0-9a-fA-F]
IsHexChar(c) == c \in HexLower \cup HexUpper

\* String.prototype.toLowerCase on one character
ToLowerChar(c) ==
    CASE c = "A" -> "a" [] c = "B" -> "b" [] c = "C" -> "c"
      [] c = "D" -> "d" [] c = "E" -> "e" [] c = "F" -> "f"
      [] c = "X" -> "x"
      [] OTHER -> c

ToLowerCase(s) == [i \in DOMAIN s |-> ToLowerChar(s[i])]

\* A property that is undefined in the JavaScript object
Absent == <<"undefined">>

\* JavaScript truthiness of a string-or-undefined value
Truthy(v) == v # <<>> /\ v # Absent

\* a || b
JsOr(a, b) == IF Truthy(a) THEN a ELSE b

Hex(a, b, c, d, e, f) == <<"#", a, b, c, d, e, f>>

CoreSlots == {"background", "foreground", "cursor", "cursorText",
              "selection", "selectionText"}
AnsiNames == <<"black", "red", "green", "yellow", "blue", "magenta", "cyan", "white",
               "brightBlack", "brightRed", "brightGreen", "brightYellow",
               "brightBlue", "brightMagenta", "brightCyan", "brightWhite">>
AnsiSlots == {AnsiNames[i] : i \in DOMAIN AnsiNames}

\* no colors object
NoColors == <<>>

(***************************************************************************)
(* Property-list colour dictionaries (parseItermColors, parseJson)         *)
(***************************************************************************)
\* A component is the rational n/d, or is missing from the dictionary
Comp(n, d) == [has |-> TRUE, n |-> n, d |-> d]
NoComp == [has |-> FALSE, n |-> 0, d |-> 1]

\* a colour dictionary; a property list maps the names of its entries to them
ColorDict(r, g, b) == [r |-> r, g |-> g, b |-> b]

\* Math.round((component || 0) * 255): round half up
MathRound255(c) ==
    LET n == IF c.has THEN c.n ELSE 0
    IN  (2 * 255 * n + c.d) \div (2 * c.d)

HexDigit(v) ==
    CASE v = 0 -> "0" [] v = 1 -> "1" [] v = 2 -> "2" [] v = 3 -> "3"
      [] v = 4 -> "4" [] v = 5 -> "5" [] v = 6 -> "6" [] v = 7 -> "7"
      [] v = 8 -> "8" [] v = 9 -> "9" [] v = 10 -> "a" [] v = 11 -> "b"
      [] v = 12 -> "c" [] v = 13 -> "d" [] v = 14 -> "e" [] v = 15 -> "f"

\* Number.prototype.toString(16) on an integer
RECURSIVE ToString16(_)
ToString16(n) ==
    IF n < 0 THEN <<"-">> \o ToString16(0 - n)
    ELSE IF n < 16 THEN <<HexDigit(n)>>
    ELSE ToString16(n \div 16) \o <<HexDigit(n % 16)>>

\* padStart(2, '0')
PadStart2(s) == IF Len(s) >= 2 THEN s ELSE <<"0">> \o s

\* Math.round(c * 255).toString(16).padStart(2, '0')
ComponentHex(c) == PadStart2(ToString16(MathRound255(c)))

\* getColor of parseItermColors and of the Profiles branch of parseJson
GetColorDict(plist, key) ==
    IF key \notin DOMAIN plist THEN Hex("0", "0", "0", "0", "0", "0")
    ELSE <<"#">> \o ComponentHex(plist[key].r) \o ComponentHex(plist[key].g)
               \o ComponentHex(plist[key].b)

PlistAnsiKey(i) ==
    CASE i = 0 -> "Ansi 0 Color" [] i = 1 -> "Ansi 1 Color" [] i = 2 -> "Ansi 2 Color"
      [] i = 3 -> "Ansi 3 Color" [] i = 4 -> "Ansi 4 Color" [] i = 5 -> "Ansi 5 Color"
      [] i = 6 -> "Ansi 6 Color" [] i = 7 -> "Ansi 7 Color" [] i = 8 -> "Ansi 8 Color"
      [] i = 9 -> "Ansi 9 Color" [] i = 10 -> "Ansi 10 Color" [] i = 11 -> "Ansi 11 Color"
      [] i = 12 -> "Ansi 12 Color" [] i = 13 -> "Ansi 13 Color"
      [] i = 14 -> "Ansi 14 Color" [] i = 15 -> "Ansi 15 Color"

PlistKeys == {"Background Color", "Foreground Color", "Cursor Color",
              "Cursor Text Color", "Selection Color", "Selected Text Color"}
             \cup {PlistAnsiKey(i) : i \in 0..15}

\* the colors object built from a property list / a profile
ItermThemeColors(plist) ==
    [background |-> GetColorDict(plist, "Background Color"),
     foreground |-> GetColorDict(plist, "Foreground Color"),
     cursor |-> GetColorDict(plist, "Cursor Color"),
     cursorText |-> JsOr(GetColorDict(plist, "Cursor Text Color"),
                         GetColorDict(plist, "Background Color")),
     selection |-> GetColorDict(plist, "Selection Color"),
     selectionText |-> JsOr(GetColorDict(plist, "Selected Text Color"),
                            GetColorDict(plist, "Foreground Color")),
     ansi |-> [s \in AnsiSlots |->
                 GetColorDict(plist, PlistAnsiKey(
                     (CHOOSE i \in DOMAIN AnsiNames : AnsiNames[i] = s) - 1))]]

(***************************************************************************)
(* Paths: path.extname, path.basename                                      *)
(***************************************************************************)
\* toLowerCase on one token of a path
LowerWord(w) ==
    CASE w = "TERMINAL" -> "terminal" [] w = "Terminal" -> "terminal"
      [] w = "JSON" -> "json" [] w = "Conf" -> "conf" [] w = "YML" -> "yml"
      [] w = "ItermColors" -> "itermcolors"
      [] OTHER -> w

\* LowerPath without the toLowerCase
LowerPathCaseSensitive(p) == p

LowerPath(p) == [i \in DOMAIN p |-> LowerWord(p[i])]

\* the part of the path after its last separator
LastSegment(p) ==
    LET slashes == {i \in DOMAIN p : p[i] = "/"}
        from == IF slashes = {} THEN 1
                ELSE (CHOOSE i \in slashes : \A j \in slashes : j <= i) + 1
    IN  SubSeq(p, from, Len(p))

\* ExtName taken from the first dot of the last segment
ExtNameFirstDot(p) ==
    LET base == LastSegment(p)
        dots == {i \in DOMAIN base : base[i] = "."}
        first == CHOOSE i \in dots : \A j \in dots : i <= j
    IN  IF dots = {} THEN <<>>
        ELSE IF first = 1 THEN <<>>
        ELSE SubSeq(base, first, Len(base))

\* path.extname: from the last dot of the last segment, '' when there is no
\* dot or the only dot leads the segment
ExtName(p) ==
    LET base == LastSegment(p)
        dots == {i \in DOMAIN base : base[i] = "."}
        last == CHOOSE i \in dots : \A j \in dots : j <= i
    IN  IF dots = {} THEN <<>>
        ELSE IF last = 1 THEN <<>>
        ELSE IF base = <<".", ".">> THEN <<>>
        ELSE SubSeq(base, last, Len(base))

EndsWith(s, suffix) ==
    /\ Len(suffix) <= Len(s)
    /\ SubSeq(s, Len(s) - Len(suffix) + 1, Len(s)) = suffix

\* path.basename(p, ext): the last segment without a trailing ext
BaseName(p, ext) ==
    LET base == LastSegment(p)
    IN  IF ext # <<>> /\ p = ext THEN <<>>
        ELSE IF ext # <<>> /\ EndsWith(base, ext) /\ Len(base) > Len(ext)
             THEN SubSeq(base, 1, Len(base) - Len(ext))
        ELSE base

(***************************************************************************)
(* Lines of a config file.  A trimmed line is key ++ sep ++ quote ++ val   *)
(* ++ quote: key is the leading token, sep what follows it (" " is a run   *)
(* of white space, ":" a colon, ": " a colon and white space), val the     *)
(* value's characters.                                                     *)
(***************************************************************************)
Line(key, sep, quote, val) == [key |-> key, sep |-> sep, quote |-> quote, val |-> val]

\* keys that are not a run of \w characters
NonWordKeys == {"", "#", "{", "font-size", "<key>"}

\* ^(\w+) takes the whole key
IsWord(k) == k \notin NonWordKeys

\* !trimmed
IsBlankLine(l) == l.key = "" /\ l.sep = "" /\ l.quote = "" /\ l.val = <<>>

\* trimmed.startsWith('#')
StartsWithHash(l) ==
    \/ l.key = "#"
    \/ l.key = "" /\ l.sep = "" /\ l.quote = "" /\ l.val # <<>> /\ l.val[1] = "#"

\* s[from..from+5] matches [0-9a-fA-F]{6}
SixHexAt(s, from) ==
    /\ Len(s) >= from + 5
    /\ \A i \in from..(from + 5) : IsHexChar(s[i])

\* (#[0-9a-fA-F]{6}) at the start of val: the text of the group, <<>> if none
KittyValue(val) ==
    IF Len(val) >= 1 /\ val[1] = "#" /\ SixHexAt(val, 2) THEN SubSeq(val, 1, 7)
    ELSE <<>>

\* KittyMatch with any separator after the key
KittyMatchAnySeparator(l) ==
    /\ IsWord(l.key)
    /\ l.quote = ""
    /\ KittyValue(l.val) # <<>>

\* trimmed.match(/^(\w+)\s+(#[0-9a-fA-F]{6})/)
KittyMatch(l) ==
    /\ IsWord(l.key)
    /\ l.sep = " "
    /\ l.quote = ""
    /\ KittyValue(l.val) # <<>>

MapSet(m, k, v) == [x \in DOMAIN m \cup {k} |-> IF x = k THEN v ELSE m[x]]

\* the for loop of parseKitty over content.split('\n')
RECURSIVE KittyScan(_, _)
KittyScan(lines, colors) ==
    IF lines = <<>> THEN colors
    ELSE LET l == Head(lines)
         IN  IF IsBlankLine(l) \/ StartsWithHash(l) THEN KittyScan(Tail(lines), colors)
             ELSE IF KittyMatch(l)
                  THEN KittyScan(Tail(lines),
                                 MapSet(colors, l.key, ToLowerCase(KittyValue(l.val))))
             ELSE KittyScan(Tail(lines), colors)

\* GetColor without the || fallback
GetColorNoFallback(colors, key, fallback) ==
    IF key \in DOMAIN colors THEN colors[key] ELSE Absent

\* colors[key] || fallback
GetColor(colors, key, fallback) ==
    IF key \in DOMAIN colors /\ Truthy(colors[key]) THEN colors[key] ELSE fallback

\* the themeColors object of parseKitty
KittyThemeColors(colors) ==
    [background |-> GetColor(colors, "background", Hex("1", "d", "1", "f", "2", "1")),
     foreground |-> GetColor(colors, "foreground", Hex("c", "5", "c", "8", "c", "6")),
     cursor |-> GetColor(colors, "cursor",
                    GetColor(colors, "foreground", Hex("c", "5", "c", "8", "c", "6"))),
     cursorText |-> GetColor(colors, "cursor_text_color",
                        GetColor(colors, "background", Hex("1", "d", "1", "f", "2", "1"))),
     selection |-> GetColor(colors, "selection_background", Hex("3", "7", "3", "b", "4", "1")),
     selectionText |-> GetColor(colors, "selection_foreground",
                           GetColor(colors, "foreground", Hex("c", "5", "c", "8", "c", "6"))),
     ansi |->
       [black |-> GetColor(colors, "color0", Hex("1", "d", "1", "f", "2", "1")),
        red |-> GetColor(colors, "color1", Hex("c", "c", "6", "6", "6", "6")),
        green |-> GetColor(colors, "color2", Hex("b", "5", "b", "d", "6", "8")),
        yellow |-> GetColor(colors, "color3", Hex("f", "0", "c", "6", "7", "4")),
        blue |-> GetColor(colors, "color4", Hex("8", "1", "a", "2", "b", "e")),
        magenta |-> GetColor(colors, "color5", Hex("b", "2", "9", "4", "b", "b")),
        cyan |-> GetColor(colors, "color6", Hex("8", "a", "b", "e", "b", "7")),
        white |-> GetColor(colors, "color7", Hex("c", "5", "c", "8", "c", "6")),
        brightBlack |-> GetColor(colors, "color8", Hex("9", "6", "9", "8", "9", "6")),
        brightRed |-> GetColor(colors, "color9", Hex("d", "e", "9", "3", "5", "f")),
        brightGreen |-> GetColor(colors, "color10", Hex("b", "5", "b", "d", "6", "8")),
        brightYellow |-> GetColor(colors, "color11", Hex("f", "0", "c", "6", "7", "4")),
        brightBlue |-> GetColor(colors, "color12", Hex("8", "1", "a", "2", "b", "e")),
        brightMagenta |-> GetColor(colors, "color13", Hex("b", "2", "9", "4", "b", "b")),
        brightCyan |-> GetColor(colors, "color14", Hex("8", "a", "b", "e", "b", "7")),
        brightWhite |-> GetColor(colors, "color15", Hex("f", "f", "f", "f", "f", "f"))]]

\* trimmed === 'colors:'
IsColorsHeader(l) ==
    l.key = "colors" /\ l.sep \in {":", ": "} /\ l.quote = "" /\ l.val = <<>>

\* trimmed.endsWith(':') && !trimmed.includes("'") && !trimmed.includes('"')
IsSectionHeader(l) ==
    l.sep \in {":", ": "} /\ l.quote = "" /\ l.val = <<>>

\* (#?[0-9a-fA-F]{6}|0x[0-9a-fA-F]{6}) at the start of val: the text of the
\* group, <<>> if neither alternative matches
AlacrittyValue(val) ==
    IF Len(val) >= 1 /\ val[1] = "#" /\ SixHexAt(val, 2) THEN SubSeq(val, 1, 7)
    ELSE IF SixHexAt(val, 1) THEN SubSeq(val, 1, 6)
    ELSE IF Len(val) >= 2 /\ val[1] = "0" /\ val[2] = "x" /\ SixHexAt(val, 3)
         THEN SubSeq(val, 1, 8)
    ELSE <<>>

\* trimmed.match(/^(\w+):\s*['"]?(#?[0-9a-fA-F]{6}|0x[0-9a-fA-F]{6})['"]?/)
AlacrittyMatch(l) ==
    /\ IsWord(l.key)
    /\ l.sep \in {":", ": "}
    /\ AlacrittyValue(l.val) # <<>>

\* AlacrittyNormalize without the lower-casing
AlacrittyNormalizeKeepCase(value) ==
    IF Len(value) >= 2 /\ value[1] = "0" /\ value[2] = "x"
    THEN <<"#">> \o SubSeq(value, 3, Len(value))
    ELSE IF value[1] # "#" THEN <<"#">> \o value ELSE value

\* the 0x -> # conversion and the lower-casing of a matched value
AlacrittyNormalize(value) ==
    LET v1 == IF Len(value) >= 2 /\ value[1] = "0" /\ value[2] = "x"
              THEN <<"#">> \o SubSeq(value, 3, Len(value))
              ELSE value
        v2 == IF v1[1] # "#" THEN <<"#">> \o v1 ELSE v1
    IN  ToLowerCase(v2)

\* the for loop of parseAlacritty over content.split('\n'); the flat key
\* `${currentSection}.${key}` is the pair <<currentSection, key>>
RECURSIVE AlacrittyScan(_, _, _, _)
AlacrittyScan(lines, colors, currentSection, inColors) ==
    IF lines = <<>> THEN colors
    ELSE LET l == Head(lines)
             rest == Tail(lines)
         IN  IF IsBlankLine(l) \/ StartsWithHash(l)
                  THEN AlacrittyScan(rest, colors, currentSection, inColors)
             ELSE IF IsColorsHeader(l)
                  THEN AlacrittyScan(rest, colors, currentSection, TRUE)
             ELSE IF ~inColors
                  THEN AlacrittyScan(rest, colors, currentSection, inColors)
             ELSE IF IsSectionHeader(l)
                  THEN AlacrittyScan(rest, colors, l.key, inColors)
             ELSE IF AlacrittyMatch(l)
                  THEN AlacrittyScan(rest,
                           MapSet(colors, <<currentSection, l.key>>,
                                  AlacrittyNormalize(AlacrittyValue(l.val))),
                           currentSection, inColors)
             ELSE AlacrittyScan(rest, colors, currentSection, inColors)

\* the themeColors object of parseAlacritty
AlacrittyThemeColors(colors) ==
    LET fg == GetColor(colors, <<"primary", "foreground">>, Hex("c", "5", "c", "8", "c", "6"))
        bg == GetColor(colors, <<"primary", "background">>, Hex("1", "d", "1", "f", "2", "1"))
    IN
    [background |-> bg,
     foreground |-> fg,
     cursor |-> GetColor(colors, <<"cursor", "cursor">>, fg),
     cursorText |-> GetColor(colors, <<"cursor", "text">>, bg),
     selection |-> GetColor(colors, <<"selection", "background">>,
                            Hex("3", "7", "3", "b", "4", "1")),
     selectionText |-> GetColor(colors, <<"selection", "foreground">>, fg),
     ansi |->
       [black |-> GetColor(colors, <<"normal", "black">>, Hex("1", "d", "1", "f", "2", "1")),
        red |-> GetColor(colors, <<"normal", "red">>, Hex("c", "c", "6", "6", "6", "6")),
        green |-> GetColor(colors, <<"normal", "green">>, Hex("b", "5", "b", "d", "6", "8")),
        yellow |-> GetColor(colors, <<"normal", "yellow">>, Hex("f", "0", "c", "6", "7", "4")),
        blue |-> GetColor(colors, <<"normal", "blue">>, Hex("8", "1", "a", "2", "b", "e")),
        magenta |-> GetColor(colors, <<"normal", "magenta">>, Hex("b", "2", "9", "4", "b", "b")),
        cyan |-> GetColor(colors, <<"normal", "cyan">>, Hex("8", "a", "b", "e", "b", "7")),
        white |-> GetColor(colors, <<"normal", "white">>, Hex("c", "5", "c", "8", "c", "6")),
        brightBlack |-> GetColor(colors, <<"bright", "black">>, Hex("9", "6", "9", "8", "9", "6")),
        brightRed |-> GetColor(colors, <<"bright", "red">>, Hex("d", "e", "9", "3", "5", "f")),
        brightGreen |-> GetColor(colors, <<"bright", "green">>, Hex("b", "5", "b", "d", "6", "8")),
        brightYellow |-> GetColor(colors, <<"bright", "yellow">>, Hex("f", "0", "c", "6", "7", "4")),
        brightBlue |-> GetColor(colors, <<"bright", "blue">>, Hex("8", "1", "a", "2", "b", "e")),
        brightMagenta |-> GetColor(colors, <<"bright", "magenta">>,
                                   Hex("b", "2", "9", "4", "b", "b")),
        brightCyan |-> GetColor(colors, <<"bright", "cyan">>, Hex("8", "a", "b", "e", "b", "7")),
        brightWhite |-> GetColor(colors, <<"bright", "white">>,
                                 Hex("f", "f", "f", "f", "f", "f"))]]

(***************************************************************************)
(* File contents and parse results                                         *)
(***************************************************************************)
\* JSON.parse(content) of parseJson: kind is "object", "null" or "scalar";
\* colors.present is the truthiness of data.colors, colors.ansiPresent that
\* of data.colors.ansi, colors.value the object itself
JsonData(kind, name, colors, profiles) ==
    [kind |-> kind, name |-> name, colors |-> colors, profiles |-> profiles]

JsonColors(value) == [present |-> TRUE, ansiPresent |-> TRUE, value |-> value]
JsonColorsNoAnsi(value) == [present |-> TRUE, ansiPresent |-> FALSE, value |-> value]
JsonNoColors == [present |-> FALSE, ansiPresent |-> FALSE, value |-> NoColors]

Profile(name, dict) == [Name |-> name, dict |-> dict]

EmptyPlist == <<>>
EmptyJson == JsonData("scalar", <<>>, JsonNoColors, <<>>)

\* what the bytes of a file are: lines of a config file, a property list
\* that plutil converts, a JSON document, or none of them
LinesContent(lines) ==
    [kind |-> "lines", lines |-> lines, plist |-> EmptyPlist, json |-> EmptyJson]
PlistContent(plist) ==
    [kind |-> "plist", lines |-> <<>>, plist |-> plist, json |-> EmptyJson]
JsonContent(json) ==
    [kind |-> "json", lines |-> <<>>, plist |-> EmptyPlist, json |-> json]
GarbageContent ==
    [kind |-> "garbage", lines |-> <<>>, plist |-> EmptyPlist, json |-> EmptyJson]

\* content.split('\n') as the line parsers see it: the lines of a JSON or
\* XML document start with a brace, a quote or an angle bracket
SplitLines(content) ==
    IF content.kind = "lines" THEN content.lines
    ELSE <<Line("{", "", "", <<>>)>>

\* return { name, colors }
Parsed(name, colors) ==
    [status |-> "ok", error |-> "", suggests |-> FALSE, name |-> name, colors |-> colors]

\* throw new Error(...): error is the kind of failure, suggests whether the
\* message names another way to import the theme
Thrown(error, suggests) ==
    [status |-> "error", error |-> error, suggests |-> suggests,
     name |-> <<>>, colors |-> NoColors]

NotParsed ==
    [status |-> "none", error |-> "", suggests |-> FALSE, name |-> <<>>, colors |-> NoColors]

(***************************************************************************)
(* The parsers                                                             *)
(***************************************************************************)
\* parseItermColors; the temporary JSON file it writes is removed on every path
ParseItermColors(path, exists, content) ==
    IF ~exists THEN Thrown("NotFound", FALSE)
    ELSE IF content.kind # "plist" THEN Thrown("MalformedDocument", FALSE)
    ELSE Parsed(BaseName(path, <<".", "itermcolors">>), ItermThemeColors(content.plist))

\* parseTerminalApp
ParseTerminalApp(path) == Thrown("UnsupportedFormat", TRUE)

\* parseAlacritty
ParseAlacritty(path, exists, content) ==
    IF ~exists THEN Thrown("ENOENT", FALSE)
    ELSE Parsed(BaseName(path, ExtName(path)),
                AlacrittyThemeColors(AlacrittyScan(SplitLines(content), <<>>, "", FALSE)))

\* ParseJson that always names the theme after the file
ParseJsonFileName(path, exists, content) ==
    LET name == BaseName(path, <<".", "json">>)
        data == content.json
    IN  IF ~exists THEN Thrown("ENOENT", FALSE)
        ELSE IF content.kind # "json" THEN Thrown("SyntaxError", FALSE)
        ELSE IF data.kind = "null" THEN Thrown("TypeError", FALSE)
        ELSE IF data.colors.present /\ data.colors.ansiPresent
             THEN Parsed(name, data.colors.value)
        ELSE IF Len(data.profiles) > 0
             THEN Parsed(name, ItermThemeColors(data.profiles[1].dict))
        ELSE Thrown("UnrecognizedShape", FALSE)

\* parseJson
ParseJson(path, exists, content) ==
    LET name == BaseName(path, <<".", "json">>)
        data == content.json
    IN  IF ~exists THEN Thrown("ENOENT", FALSE)
        ELSE IF content.kind # "json" THEN Thrown("SyntaxError", FALSE)
        ELSE IF data.kind = "null" THEN Thrown("TypeError", FALSE)
        ELSE IF data.colors.present /\ data.colors.ansiPresent
             THEN Parsed(JsOr(data.name, name), data.colors.value)
        ELSE IF Len(data.profiles) > 0
             THEN Parsed(JsOr(data.profiles[1].Name, name),
                         ItermThemeColors(data.profiles[1].dict))
        ELSE Thrown("UnrecognizedShape", FALSE)

\* parseKitty
ParseKitty(path, exists, content) ==
    IF ~exists THEN Thrown("ENOENT", FALSE)
    ELSE Parsed(BaseName(path, ExtName(path)),
                KittyThemeColors(KittyScan(SplitLines(content), <<>>)))

\* the switch of parseThemeFile: the parser called and what it returns or
\* throws; reads says whether the parser asks the file system for the path
Dispatch(path, exists, content) ==
    LET ext == LowerPath(ExtName(path))
    IN  CASE ext = <<".", "itermcolors">> ->
               [out |-> ParseItermColors(path, exists, content),
                parsers |-> {"parseItermColors"}, reads |-> TRUE]
          [] ext = <<".", "terminal">> ->
               [out |-> ParseTerminalApp(path),
                parsers |-> {"parseTerminalApp"}, reads |-> FALSE]
          [] ext \in {<<".", "yaml">>, <<".", "yml">>} ->
               [out |-> ParseAlacritty(path, exists, content),
                parsers |-> {"parseAlacritty"}, reads |-> TRUE]
          [] ext = <<".", "json">> ->
               [out |-> ParseJson(path, exists, content),
                parsers |-> {"parseJson"}, reads |-> TRUE]
          [] ext = <<".", "conf">> ->
               [out |-> ParseKitty(path, exists, content),
                parsers |-> {"parseKitty"}, reads |-> TRUE]
          [] OTHER ->
               [out |-> Thrown("UnsupportedExtension", FALSE),
                parsers |-> {}, reads |-> FALSE]

\* parseThemeFile(filePath)
ParseThemeFile ==
    /\ parseOut.status = "none"
    /\ LET d == Dispatch(filePath, fileExists, fileContent)
       IN  /\ parseOut' = d.out
           /\ invoked' = d.parsers
           /\ bytesRead' = d.reads
    /\ UNCHANGED <<filePath, fileExists, fileContent, wtVars, psVars, instVars, cliVars, raceVars, impVars>>

(***************************************************************************)
(* Themes                                                                  *)
(***************************************************************************)
\* the colours of the README's theme format example
TokyoNightColors ==
    [background |-> Hex("1", "a", "1", "b", "2", "6"),
     foreground |-> Hex("c", "0", "c", "a", "f", "5"),
     cursor |-> Hex("c", "0", "c", "a", "f", "5"),
     cursorText |-> Hex("1", "a", "1", "b", "2", "6"),
     selection |-> Hex("3", "3", "4", "6", "7", "c"),
     selectionText |-> Hex("c", "0", "c", "a", "f", "5"),
     ansi |->
       [black |-> Hex("1", "5", "1", "6", "1", "e"),
        red |-> Hex("f", "7", "7", "6", "8", "e"),
        green |-> Hex("9", "e", "c", "e", "6", "a"),
        yellow |-> Hex("e", "0", "a", "f", "6", "8"),
        blue |-> Hex("7", "a", "a", "2", "f", "7"),
        magenta |-> Hex("b", "b", "9", "a", "f", "7"),
        cyan |-> Hex("7", "d", "c", "f", "f", "f"),
        white |-> Hex("a", "9", "b", "1", "d", "6"),
        brightBlack |-> Hex("4", "1", "4", "8", "6", "8"),
        brightRed |-> Hex("f", "7", "7", "6", "8", "e"),
        brightGreen |-> Hex("9", "e", "c", "e", "6", "a"),
        brightYellow |-> Hex("e", "0", "a", "f", "6", "8"),
        brightBlue |-> Hex("7", "a", "a", "2", "f", "7"),
        brightMagenta |-> Hex("b", "b", "9", "a", "f", "7"),
        brightCyan |-> Hex("7", "d", "c", "f", "f", "f"),
        brightWhite |-> Hex("c", "0", "c", "a", "f", "5")]]

\* DEFAULT_THEME_COLORS of shared/types/theme
DEFAULT_THEME_COLORS ==
    [background |-> Hex("2", "8", "2", "a", "3", "6"),
     foreground |-> Hex("f", "8", "f", "8", "f", "2"),
     cursor |-> Hex("f", "8", "f", "8", "f", "2"),
     cursorText |-> Hex("2", "8", "2", "a", "3", "6"),
     selection |-> Hex("4", "4", "4", "7", "5", "a"),
     selectionText |-> Hex("f", "8", "f", "8", "f", "2"),
     ansi |->
       [black |-> Hex("2", "1", "2", "2", "2", "c"),
        red |-> Hex("f", "f", "5", "5", "5", "5"),
        green |-> Hex("5", "0", "f", "a", "7", "b"),
        yellow |-> Hex("f", "1", "f", "a", "8", "c"),
        blue |-> Hex("b", "d", "9", "3", "f", "9"),
        magenta |-> Hex("f", "f", "7", "9", "c", "6"),
        cyan |-> Hex("8", "b", "e", "9", "f", "d"),
        white |-> Hex("f", "8", "f", "8", "f", "2"),
        brightBlack |-> Hex("6", "2", "7", "2", "a", "4"),
        brightRed |-> Hex("f", "f", "6", "e", "6", "e"),
        brightGreen |-> Hex("6", "9", "f", "f", "9", "4"),
        brightYellow |-> Hex("f", "f", "f", "f", "a", "5"),
        brightBlue |-> Hex("d", "6", "a", "c", "f", "f"),
        brightMagenta |-> Hex("f", "f", "9", "2", "d", "f"),
        brightCyan |-> Hex("a", "4", "f", "f", "f", "f"),
        brightWhite |-> Hex("f", "f", "f", "f", "f", "f")]]

Theme(name, colors) == [name |-> name, colors |-> colors]

\* the native JSON shape of a theme: name, and colors with the nested ansi object
SerializeCanonicalJson(t) == JsonData("object", t.name, JsonColors(t.colors), <<>>)

(***************************************************************************)
(* Windows Terminal: applyToWindowsTerminal                                *)
(***************************************************************************)
\* the colorScheme object
ColorScheme(colors, themeName) ==
    [name |-> themeName,
     background |-> colors.background,
     foreground |-> colors.foreground,
     cursorColor |-> colors.cursor,
     selectionBackground |-> colors.selection,
     black |-> colors.ansi.black,
     red |-> colors.ansi.red,
     green |-> colors.ansi.green,
     yellow |-> colors.ansi.yellow,
     blue |-> colors.ansi.blue,
     purple |-> colors.ansi.magenta,
     cyan |-> colors.ansi.cyan,
     white |-> colors.ansi.white,
     brightBlack |-> colors.ansi.brightBlack,
     brightRed |-> colors.ansi.brightRed,
     brightGreen |-> colors.ansi.brightGreen,
     brightYellow |-> colors.ansi.brightYellow,
     brightBlue |-> colors.ansi.brightBlue,
     brightPurple |-> colors.ansi.brightMagenta,
     brightCyan |-> colors.ansi.brightCyan,
     brightWhite |-> colors.ansi.brightWhite]

\* A settings object.  schemes.kind is "array", "missing" (falsy) or "other"
\* (a truthy value that is no array); profiles.colorScheme is
\* profiles.defaults.colorScheme; hasUrl says that some other string of the
\* document holds "//" (the "$schema" URL); extra stands for every other
\* setting of the user
Settings(schemesKind, items, profiles, hasUrl, extra) ==
    [schemes |-> [kind |-> schemesKind, items |-> items],
     profiles |-> profiles, hasUrl |-> hasUrl, extra |-> extra]

Profiles(present, defaultsPresent, colorScheme) ==
    [present |-> present, isArray |-> FALSE,
     defaultsPresent |-> defaultsPresent, colorScheme |-> colorScheme]

\* "profiles": [ ... ], the list form of the profiles setting: an array, on
\* which defaults is an expando property and no element
ProfilesArray(defaultsPresent, colorScheme) ==
    [present |-> TRUE, isArray |-> TRUE,
     defaultsPresent |-> defaultsPresent, colorScheme |-> colorScheme]

\* let settings = { schemes: [], profiles: { defaults: {} } }
DefaultSettings == Settings("array", <<>>, Profiles(TRUE, TRUE, Absent), FALSE, FALSE)

\* settings.json: absent, or text that is a settings object ("json"), the
\* JSON literal null ("null"), or no JSON at all ("garbage")
SettingsFile(exists, kind, doc) == [exists |-> exists, kind |-> kind, doc |-> doc]

NoSettingsFile == SettingsFile(FALSE, "garbage", DefaultSettings)

HasLineComment(name) == \E i \in DOMAIN name : name[i] = "//"

\* .replace(/\/\*[\s\S]*?\*\//g, '') on the tokens of one string
RECURSIVE StripBlockComments(_)
StripBlockComments(name) ==
    IF name = <<>> THEN <<>>
    ELSE IF Head(name) = "/*" /\ \E i \in DOMAIN name : name[i] = "*/"
         THEN LET close == CHOOSE i \in DOMAIN name :
                               name[i] = "*/" /\ \A j \in 1..(i - 1) : name[j] # "*/"
              IN  StripBlockComments(SubSeq(name, close + 1, Len(name)))
    ELSE <<Head(name)>> \o StripBlockComments(Tail(name))

\* content.replace(/\/\/.*$/gm, ''): a string that holds "//" loses its
\* closing quote, and the document no longer parses
BrokenByLineComments(doc) ==
    \/ doc.hasUrl
    \/ \E i \in DOMAIN doc.schemes.items : HasLineComment(doc.schemes.items[i].name)
    \/ HasLineComment(doc.profiles.colorScheme)

StripDoc(doc) ==
    [doc EXCEPT
       !.schemes.items = [i \in DOMAIN doc.schemes.items |->
                            [doc.schemes.items[i] EXCEPT
                               !.name = StripBlockComments(doc.schemes.items[i].name)]],
       !.profiles.colorScheme = StripBlockComments(doc.profiles.colorScheme)]

\* ReadSettings that keeps what it can read of a document JSON.parse rejects
ReadSettingsKeepBroken(file) ==
    IF file.exists /\ file.kind = "json" /\ BrokenByLineComments(file.doc)
    THEN [isNull |-> FALSE, parseFailed |-> TRUE, doc |-> StripDoc(file.doc)]
    ELSE IF ~file.exists \/ file.kind = "garbage"
    THEN [isNull |-> FALSE, parseFailed |-> file.exists, doc |-> DefaultSettings]
    ELSE [isNull |-> file.kind = "null", parseFailed |-> FALSE, doc |-> StripDoc(file.doc)]

\* lines 685-696: the settings the merge starts from; isNull when JSON.parse
\* returned null, parseFailed when JSON.parse threw and the empty catch ran
ReadSettings(file) ==
    IF ~file.exists
    THEN [isNull |-> FALSE, parseFailed |-> FALSE, doc |-> DefaultSettings]
    ELSE IF file.kind = "garbage"
    THEN [isNull |-> FALSE, parseFailed |-> TRUE, doc |-> DefaultSettings]
    ELSE IF file.kind = "null"
    THEN [isNull |-> TRUE, parseFailed |-> FALSE, doc |-> DefaultSettings]
    ELSE IF BrokenByLineComments(file.doc)
    THEN [isNull |-> FALSE, parseFailed |-> TRUE, doc |-> DefaultSettings]
    ELSE [isNull |-> FALSE, parseFailed |-> FALSE, doc |-> StripDoc(file.doc)]

\* FilterSchemes that removes nothing
FilterSchemesKeepAll(items, themeName) == items

\* settings.schemes.filter((s) => s.name !== themeName)
FilterSchemes(items, themeName) == SelectSeq(items, LAMBDA sc : sc.name # themeName)

\* lines 698-707: the settings object after the merge
MergeScheme(doc, colors, themeName) ==
    LET items == IF doc.schemes.kind = "missing" THEN <<>> ELSE doc.schemes.items
    IN  [doc EXCEPT
           !.schemes = [kind |-> "array",
                        items |-> Append(FilterSchemes(items, themeName),
                                         ColorScheme(colors, themeName))],
           !.profiles = IF doc.profiles.isArray
                        THEN ProfilesArray(TRUE, themeName)
                        ELSE Profiles(TRUE, TRUE, themeName)]

\* JSON.stringify(settings, null, 4): an array is written as its elements,
\* the properties set on the array object itself are not written
JsonStringify(doc) ==
    IF doc.profiles.isArray
    THEN [doc EXCEPT !.profiles = ProfilesArray(FALSE, Absent)]
    ELSE doc

\* applyToWindowsTerminal(colors, themeName)
ApplyToWindowsTerminal(colors, themeName) ==
    LET read == ReadSettings(wtFile)
    IN  IF read.isNull \/ read.doc.schemes.kind = "other"
        THEN \* TypeError inside the try: nothing is written
             /\ wtLast' = [count |-> wtLast.count + 1, name |-> themeName,
                           success |-> FALSE, removed |-> 0,
                           parseFailed |-> read.parseFailed, colors |-> colors]
             /\ UNCHANGED wtFile
        ELSE /\ wtFile' = SettingsFile(TRUE, "json",
                                       JsonStringify(MergeScheme(read.doc, colors, themeName)))
             /\ wtLast' = [count |-> wtLast.count + 1, name |-> themeName, success |-> TRUE,
                           removed |-> Cardinality({i \in DOMAIN read.doc.schemes.items :
                                           read.doc.schemes.items[i].name = themeName}),
                           parseFailed |-> read.parseFailed, colors |-> colors]

(***************************************************************************)
(* PowerShell: applyToPowerShell.  The profile text is a sequence of       *)
(* tokens <<kind, payload>>: "NL" a newline, "HDR" the text                *)
(* "# ShellShade Theme:", "HASH" the text "# " followed by something other *)
(* than "ShellShade", "HASHSS" the text "# ShellShade" that is no header,  *)
(* "TXT" any other run of characters without a newline.                    *)
(***************************************************************************)
NL == <<"NL", <<>>>>
HDR == <<"HDR", <<>>>>
HASH(text) == <<"HASH", <<text>>>>
HASHSS(text) == <<"HASHSS", <<text>>>>
TXT(text) == <<"TXT", <<text>>>>
\* a line of the script into which a value of the theme is interpolated
TXTV(text, value) == <<"TXT", <<text>> \o value>>

\* the psColorScript template literal
PsColorScript(colors, themeName) ==
    << NL,
       HDR, TXTV(" ", themeName), NL,
       HASH("Generated by ShellShade - Terminal Theme Manager"), NL,
       NL,
       TXT("$Host.UI.RawUI.BackgroundColor = [System.ConsoleColor]::Black"), NL,
       TXT("$Host.UI.RawUI.ForegroundColor = [System.ConsoleColor]::White"), NL,
       NL,
       HASH("PSReadLine colors (if available)"), NL,
       TXT("if (Get-Module -ListAvailable -Name PSReadLine) {"), NL,
       TXT("    Set-PSReadLineOption -Colors @{"), NL,
       TXTV("        Command            = ", colors.ansi.yellow), NL,
       TXTV("        Parameter          = ", colors.ansi.cyan), NL,
       TXTV("        String             = ", colors.ansi.green), NL,
       TXTV("        Comment            = ", colors.ansi.brightBlack), NL,
       TXTV("        Keyword            = ", colors.ansi.magenta), NL,
       TXTV("        Variable           = ", colors.ansi.blue), NL,
       TXTV("        Operator           = ", colors.foreground), NL,
       TXTV("        Number             = ", colors.ansi.red), NL,
       TXTV("        Type               = ", colors.ansi.cyan), NL,
       TXTV("        Member             = ", colors.ansi.yellow), NL,
       TXTV("        Error              = ", colors.ansi.brightRed), NL,
       TXTV("        Selection          = ", colors.selection), NL,
       TXT("    }"), NL,
       TXT("}"), NL,
       NL,
       HASH("Set console colors via registry (requires restart)"), NL,
       TXT("$regPath = HKCU:\\Console"), NL,
       TXT("if (Test-Path $regPath) {"), NL,
       TXT("    # Note: Console colors require hex values in specific format"), NL,
       TXTV("    Write-Host Theme applied to PSReadLine.", themeName), NL,
       TXT("    Write-Host For full color support, use Windows Terminal."), NL,
       TXT("}"), NL >>

\* the lookahead (?=\n# (?!ShellShade)|$) at position i of the text
BlockEndsAt(text, i) ==
    \/ i = Len(text) + 1
    \/ i < Len(text) /\ text[i] = NL /\ text[i + 1][1] = "HASH"

\* [\s\S]*? followed by the lookahead: the first position from i on at which
\* the lookahead holds
BlockEnd(text, i) ==
    CHOOSE j \in i..(Len(text) + 1) :
        /\ BlockEndsAt(text, j)
        /\ \A k \in i..(j - 1) : ~BlockEndsAt(text, k)

\* \n?# ShellShade Theme: matches at position i
HeaderAt(text, i) ==
    \/ text[i] = HDR
    \/ i < Len(text) /\ text[i] = NL /\ text[i + 1] = HDR

\* existingProfile.replace(shellshadeBlockRegex, ''), scanning from position i
RECURSIVE StripFrom(_, _)
StripFrom(text, i) ==
    LET starts == {j \in i..Len(text) : HeaderAt(text, j)}
    IN  IF starts = {} THEN SubSeq(text, i, Len(text))
        ELSE LET m == CHOOSE j \in starts : \A k \in starts : j <= k
                 afterHeader == IF text[m] = HDR THEN m + 1 ELSE m + 2
             IN  SubSeq(text, i, m - 1) \o StripFrom(text, BlockEnd(text, afterHeader))

\* /\n?# ShellShade Theme:[\s\S]*?(?=\n# (?!ShellShade)|$)/g replaced by ''
StripShellShadeBlock(text) == StripFrom(text, 1)

\* String.prototype.trim
Trim(text) ==
    LET solid == {i \in DOMAIN text : text[i] # NL}
    IN  IF solid = {} THEN <<>>
        ELSE SubSeq(text, CHOOSE i \in solid : \A j \in solid : i <= j,
                          CHOOSE i \in solid : \A j \in solid : j <= i)

\* lines 762-772: the new profile text
NewProfile(existingProfile, colors, themeName) ==
    Trim(StripShellShadeBlock(existingProfile)) \o <<NL>> \o PsColorScript(colors, themeName)

ProfileFile(exists, text) == [exists |-> exists, text |-> text]

\* applyToPowerShell(colors, themeName)
ApplyToPowerShell(colors, themeName) ==
    LET existingProfile == IF psFile.exists THEN psFile.text ELSE <<>>
    IN  /\ psFile' = ProfileFile(TRUE, NewProfile(existingProfile, colors, themeName))
        /\ psLast' = [count |-> psLast.count + 1, name |-> themeName, colors |-> colors]

(***************************************************************************)
(* Inputs of the parsers                                                   *)
(***************************************************************************)
MaxKittyLines == 2
MaxYamlLines == 3

SeqsUpTo(S, n) == UNION {[1..k -> S] : k \in 0..n}

Paths ==
    { <<"theme", ".", "itermcolors">>,
      <<"Theme", ".", "ItermColors">>,
      <<"theme", ".", "terminal">>,
      <<"theme", ".", "TERMINAL">>,
      <<"dir", "/", "theme", ".", "Terminal">>,
      <<"theme", ".", "yaml">>,
      <<"theme", ".", "YML">>,
      <<"theme", ".", "json">>,
      <<"theme", ".", "conf", ".", "JSON">>,
      <<"theme", ".", "conf">>,
      <<"theme", ".", "Conf">>,
      <<"theme", ".", "toml">>,
      <<"theme">>,
      <<".", "terminal">>,
      <<"dir", ".", "terminal", "/", "theme">> }

KittyLineSet ==
    { Line("background", " ", "", Hex("1", "a", "1", "b", "2", "6")),
      Line("color1", " ", "", Hex("f", "7", "7", "6", "8", "e")),
      Line("color1", " ", "", Hex("F", "7", "7", "6", "8", "E")),
      Line("foreground", " ", "", Hex("c", "0", "c", "a", "f", "5")),
      Line("cursor", " ", "", <<"#", "1", "2", "3", "4", "5", "6", "7">>),
      Line("color0", " ", "", <<"#", "1", "2", "3">>),
      Line("cursor_text_color", " ", "", Hex("0", "0", "0", "0", "0", "0")),
      Line("selection_foreground", "=", "", Hex("a", "b", "c", "d", "e", "f")),
      Line("#", " ", "", Hex("f", "f", "f", "f", "f", "f")),
      Line("", "", "", <<>>) }

YamlLineSet ==
    { Line("colors", ":", "", <<>>),
      Line("primary", ":", "", <<>>),
      Line("normal", ":", "", <<>>),
      Line("background", ": ", "'", Hex("A", "A", "B", "B", "C", "C")),
      Line("red", ": ", "", <<"0", "x", "1", "1", "2", "2", "3", "3">>),
      Line("foreground", ":", "\"", <<"1", "2", "3", "4", "5", "6">>),
      Line("background", ": ", "", <<"#", "1", "2", "3">>) }

\* marks an entry that the property list does not have
NoDict == ColorDict(NoComp, NoComp, NoComp)

\* the property list without the entries marked NoDict
Entries(pl) == [k \in {x \in DOMAIN pl : pl[x] # NoDict} |-> pl[k]]

DictChoices ==
    { NoDict,
      ColorDict(Comp(0, 1), Comp(0, 1), Comp(0, 1)),
      ColorDict(Comp(1, 1), Comp(1, 1), Comp(1, 1)),
      ColorDict(Comp(12, 10), Comp(1, 2), NoComp),
      ColorDict(Comp(-1, 10), Comp(128, 255), Comp(1, 510)) }

PlistInputs ==
    { Entries([k \in PlistKeys |->
         CASE k = "Background Color" -> b
           [] k = "Foreground Color" -> f
           [] k = "Cursor Text Color" -> ct
           [] k = "Selected Text Color" -> st
           [] k = "Ansi 1 Color" -> ColorDict(Comp(247, 255), Comp(118, 255), Comp(142, 255))
           [] OTHER -> ColorDict(Comp(1, 2), Comp(1, 4), Comp(3, 4))])
      : b \in DictChoices, f \in DictChoices, ct \in DictChoices, st \in DictChoices }

ThemeNames == { <<>>, <<"Tokyo Night">> }

\* themes whose 22 colours are valid hex strings
ValidThemes ==
    { Theme(n, c) : n \in ThemeNames,
                    c \in { TokyoNightColors, DEFAULT_THEME_COLORS,
                            [TokyoNightColors EXCEPT
                               !.cursor = Hex("C", "0", "C", "A", "F", "5")] } }

JsonColorInputs ==
    { JsonColors([TokyoNightColors EXCEPT !.ansi.red = Absent]),
      JsonColors([TokyoNightColors EXCEPT !.background = <<"r", "e", "d">>]),
      JsonColors([TokyoNightColors EXCEPT !.selection = <<"#", "f", "f", "f">>]),
      JsonColors([TokyoNightColors EXCEPT !.ansi = [s \in AnsiSlots |-> Absent]]),
      JsonColorsNoAnsi([TokyoNightColors EXCEPT !.ansi = [s \in AnsiSlots |-> Absent]]),
      JsonNoColors }

ProfileInputs ==
    { <<>> }
    \cup { <<Profile(n, d)>> :
             n \in ThemeNames,
             d \in { [k \in PlistKeys |-> ColorDict(Comp(1, 1), Comp(1, 2), Comp(0, 1))],
                     Entries([k \in PlistKeys |->
                        IF k \in {"Cursor Text Color", "Selected Text Color"} THEN NoDict
                        ELSE ColorDict(Comp(1, 1), Comp(12, 10), Comp(-1, 10))]) } }

JsonInputs ==
    { SerializeCanonicalJson(t) : t \in ValidThemes }
    \cup { JsonData("object", n, c, <<>>) : n \in ThemeNames, c \in JsonColorInputs }
    \cup { JsonData("object", <<>>, JsonNoColors, ps) : ps \in ProfileInputs }
    \cup { JsonData("null", <<>>, JsonNoColors, <<>>),
           JsonData("scalar", <<>>, JsonNoColors, <<>>) }

Contents ==
    { LinesContent(ls) : ls \in SeqsUpTo(KittyLineSet, MaxKittyLines) }
    \cup { LinesContent(ls) : ls \in SeqsUpTo(YamlLineSet, MaxYamlLines) }
    \cup { PlistContent(pl) : pl \in PlistInputs }
    \cup { JsonContent(j) : j \in JsonInputs }
    \cup { GarbageContent }

ParseIdle ==
    /\ filePath = <<>>
    /\ fileExists = FALSE
    /\ fileContent = GarbageContent
    /\ parseOut = NotParsed
    /\ invoked = {}
    /\ bytesRead = FALSE

ParseInit ==
    /\ filePath \in Paths
    /\ \/ fileExists = TRUE /\ fileContent \in Contents
       \/ fileExists = FALSE /\ fileContent = GarbageContent
    /\ parseOut = NotParsed
    /\ invoked = {}
    /\ bytesRead = FALSE

(***************************************************************************)
(* Inputs of the Windows Terminal merge                                    *)
(***************************************************************************)
MaxInitSchemes == 2
MaxInstalls == 4

SchemeNames ==
    { <<"Tokyo Night">>, <<"Dracula">>, <<"a", "//", "b">>, <<"x", "/*", "y", "*/", "z">> }

WTThemes ==
    { Theme(<<"Tokyo Night">>, TokyoNightColors),
      Theme(<<"Tokyo Night">>, DEFAULT_THEME_COLORS),
      Theme(<<"Dracula">>, DEFAULT_THEME_COLORS),
      Theme(<<"a", "//", "b">>, TokyoNightColors),
      Theme(<<"x", "/*", "y", "*/", "z">>, TokyoNightColors) }

InitSchemes ==
    { ColorScheme(DEFAULT_THEME_COLORS, <<"Campbell">>),
      ColorScheme(DEFAULT_THEME_COLORS, <<"Tokyo Night">>),
      ColorScheme(TokyoNightColors, <<"xz">>) }

InitSettingsFiles ==
    { NoSettingsFile,
      SettingsFile(TRUE, "garbage", DefaultSettings),
      SettingsFile(TRUE, "null", DefaultSettings),
      SettingsFile(TRUE, "json",
                   Settings("missing", <<>>, Profiles(FALSE, FALSE, Absent), FALSE, TRUE)),
      SettingsFile(TRUE, "json",
                   Settings("other", <<>>, Profiles(TRUE, FALSE, Absent), FALSE, TRUE)),
      SettingsFile(TRUE, "json",
                   Settings("array", <<>>, ProfilesArray(FALSE, Absent), FALSE, TRUE)) }
    \cup { SettingsFile(TRUE, "json",
                        Settings("array", items, Profiles(TRUE, TRUE, <<"Campbell">>), url, TRUE))
           : items \in SeqsUpTo(InitSchemes, MaxInitSchemes), url \in BOOLEAN }

WTIdle ==
    /\ wtFile = NoSettingsFile
    /\ wtLast = [count |-> 0, name |-> <<>>, success |-> FALSE, removed |-> 0,
                 parseFailed |-> FALSE, colors |-> NoColors]

WTInit ==
    /\ wtFile \in InitSettingsFiles
    /\ wtLast = [count |-> 0, name |-> <<>>, success |-> FALSE, removed |-> 0,
                 parseFailed |-> FALSE, colors |-> NoColors]

(***************************************************************************)
(* Inputs of the PowerShell injection                                      *)
(***************************************************************************)
MaxApplies == 3

PSThemes ==
    { Theme(<<"Tokyo Night">>, TokyoNightColors),
      Theme(<<"Tokyo Night">>, DEFAULT_THEME_COLORS),
      Theme(<<"Dracula">>, DEFAULT_THEME_COLORS) }

UserLines == << TXT("Import-Module posh-git"), NL >>

InitProfiles ==
    { ProfileFile(FALSE, <<>>),
      ProfileFile(TRUE, <<>>),
      ProfileFile(TRUE, UserLines),
      ProfileFile(TRUE, <<HASH("my aliases"), NL>> \o UserLines),
      ProfileFile(TRUE, UserLines \o <<HASHSS(" is installed"), NL, TXT("Set-Alias ll ls")>>),
      ProfileFile(TRUE, UserLines \o <<HDR, TXT(" Old"), NL, TXT("old block"), NL,
                                      HASH("user section"), NL, TXT("Set-Alias ll ls"), NL>>),
      \* a block as applyToPowerShell writes it, with the user's lines around it
      ProfileFile(TRUE, UserLines \o PsColorScript(TokyoNightColors, <<"Tokyo Night">>)
                                 \o <<TXT("Set-Alias ll ls"), NL>>),
      \* a header line with the user's line right after it
      ProfileFile(TRUE, UserLines \o <<HDR, TXT(" Old"), NL, TXT("Set-Alias ll ls"), NL>>),
      \* the header text inside a line of the user
      ProfileFile(TRUE, <<TXT("Write-Host "), HDR, TXT(" on"), NL, TXT("Set-Alias ll ls"), NL>>) }

PSIdle ==
    /\ psFile = ProfileFile(FALSE, <<>>)
    /\ psLast = [count |-> 0, name |-> <<>>, colors |-> NoColors]

PSInit ==
    /\ psFile \in InitProfiles
    /\ psLast = [count |-> 0, name |-> <<>>, colors |-> NoColors]

(***************************************************************************)
(* Installers: main/services/installer (installToIterm2,                   *)
(* installToTerminalApp, setTerminalDefault) and the applyTo... functions  *)
(* of the CLI behind applyTheme.  A theme name is a sequence of            *)
(* one-character strings here, because the slug is computed from its       *)
(* characters.                                                             *)
(***************************************************************************)
UpperCase == <<"A", "B", "C", "D", "E", "F", "G", "H", "I", "J", "K", "L", "M",
               "N", "O", "P", "Q", "R", "S", "T", "U", "V", "W", "X", "Y", "Z">>
LowerCase == <<"a", "b", "c", "d", "e", "f", "g", "h", "i", "j", "k", "l", "m",
               "n", "o", "p", "q", "r", "s", "t", "u", "v", "w", "x", "y", "z">>
Digits == {"0", "1", "2", "3", "4", "5", "6", "7", "8", "9"}

\* themeName.toLowerCase(), one character
NameLowerChar(c) ==
    IF \E i \in DOMAIN UpperCase : UpperCase[i] = c
    THEN LowerCase[CHOOSE i \in DOMAIN UpperCase : UpperCase[i] = c]
    ELSE c

\* themeName.toLowerCase()
NameToLowerCase(s) == [i \in DOMAIN s |-> NameLowerChar(s[i])]

\* [a-z0-9]
IsSlugChar(c) == c \in Digits \/ \E i \in DOMAIN LowerCase : LowerCase[i] = c

\* .replace(/[^a-z0-9]+/g, sep): every maximal run of other characters
\* becomes one sep; inRun says that the previous character was in such a run
RECURSIVE ReplaceRuns(_, _, _)
ReplaceRuns(s, sep, inRun) ==
    IF s = <<>> THEN <<>>
    ELSE IF IsSlugChar(Head(s)) THEN <<Head(s)>> \o ReplaceRuns(Tail(s), sep, FALSE)
    ELSE IF inRun THEN ReplaceRuns(Tail(s), sep, TRUE)
    ELSE <<sep>> \o ReplaceRuns(Tail(s), sep, TRUE)

\* a slug that is not lower-cased first
SlugNameKeepCase(themeName, sep) == ReplaceRuns(themeName, sep, FALSE)

\* slugName = themeName.toLowerCase().replace(/[^a-z0-9]+/g, sep)
SlugName(themeName, sep) == ReplaceRuns(NameToLowerCase(themeName), sep, FALSE)

\* path.join(dir, `${prefix}${slugName}${ext}`)
PathJoin(dir, prefix, slugName, ext) ==
    [dir |-> dir, file |-> prefix \o slugName \o ext]

\* rows of theme_colors for one theme: a function from the color_key values
\* present to their hex_value
NoRows == <<>>
RowKeys == CoreSlots \cup {"ansi_" \o AnsiNames[i] : i \in DOMAIN AnsiNames}

\* colorMap.get(key) || fallback
ColorMapGet(rows, key, fallback) ==
    IF key \in DOMAIN rows /\ rows[key] # <<>> THEN rows[key] ELSE fallback

\* the slots from the rows or the literal defaults
FillThemeColors(rows) ==
    [background |-> ColorMapGet(rows, "background", Hex("0", "0", "0", "0", "0", "0")),
     foreground |-> ColorMapGet(rows, "foreground", Hex("f", "f", "f", "f", "f", "f")),
     cursor |-> ColorMapGet(rows, "cursor", Hex("f", "f", "f", "f", "f", "f")),
     cursorText |-> ColorMapGet(rows, "cursorText", Hex("0", "0", "0", "0", "0", "0")),
     selection |-> ColorMapGet(rows, "selection", Hex("4", "4", "4", "4", "4", "4")),
     selectionText |-> ColorMapGet(rows, "selectionText", Hex("f", "f", "f", "f", "f", "f")),
     ansi |->
       [black |-> ColorMapGet(rows, "ansi_black", Hex("0", "0", "0", "0", "0", "0")),
        red |-> ColorMapGet(rows, "ansi_red", Hex("f", "f", "0", "0", "0", "0")),
        green |-> ColorMapGet(rows, "ansi_green", Hex("0", "0", "f", "f", "0", "0")),
        yellow |-> ColorMapGet(rows, "ansi_yellow", Hex("f", "f", "f", "f", "0", "0")),
        blue |-> ColorMapGet(rows, "ansi_blue", Hex("0", "0", "0", "0", "f", "f")),
        magenta |-> ColorMapGet(rows, "ansi_magenta", Hex("f", "f", "0", "0", "f", "f")),
        cyan |-> ColorMapGet(rows, "ansi_cyan", Hex("0", "0", "f", "f", "f", "f")),
        white |-> ColorMapGet(rows, "ansi_white", Hex("f", "f", "f", "f", "f", "f")),
        brightBlack |-> ColorMapGet(rows, "ansi_brightBlack", Hex("6", "6", "6", "6", "6", "6")),
        brightRed |-> ColorMapGet(rows, "ansi_brightRed", Hex("f", "f", "6", "6", "6", "6")),
        brightGreen |-> ColorMapGet(rows, "ansi_brightGreen", Hex("6", "6", "f", "f", "6", "6")),
        brightYellow |-> ColorMapGet(rows, "ansi_brightYellow", Hex("f", "f", "f", "f", "6", "6")),
        brightBlue |-> ColorMapGet(rows, "ansi_brightBlue", Hex("6", "6", "6", "6", "f", "f")),
        brightMagenta |-> ColorMapGet(rows, "ansi_brightMagenta", Hex("f", "f", "6", "6", "f", "f")),
        brightCyan |-> ColorMapGet(rows, "ansi_brightCyan", Hex("6", "6", "f", "f", "f", "f")),
        brightWhite |-> ColorMapGet(rows, "ansi_brightWhite", Hex("f", "f", "f", "f", "f", "f"))]]

\* a lookup that never answers null
GetThemeColorsNeverNull(rows) == FillThemeColors(rows)

\* getThemeColors: null (NoColors) when the theme has no rows
GetThemeColors(rows) == IF rows = NoRows THEN NoColors ELSE FillThemeColors(rows)

\* getThemeName: theme?.name || 'Untitled'; nameRow is Absent when the themes
\* table has no row for the id
GetThemeName(nameRow) ==
    IF Truthy(nameRow) THEN nameRow
    ELSE <<"U", "n", "t", "i", "t", "l", "e", "d">>

\* ---- what a call leaves behind ------------------------------------------
NoPath == [dir |-> "", file |-> <<>>]

\* InstallResult { success, path, instructions?, error? } of the main process
\* and { success, message } of the CLI, in one record; a field the object
\* does not have is Absent
InstallResult(success, path, instructions, error) ==
    [success |-> success, path |-> path, instructions |-> instructions,
     error |-> error, message |-> Absent]

CliResult(success, message) ==
    [success |-> success, path |-> NoPath, instructions |-> Absent,
     error |-> Absent, message |-> message]

NoResult == CliResult(FALSE, Absent)

\* The end of one call: outcome "returned" with the result, or "threw" when
\* an exception left the function (a rejected promise for the async ones);
\* with the files, directories and OS state it leaves, the steps that failed
\* and the steps that were carried out
Returned(result, d, ds, o, failed, done) ==
    [outcome |-> "returned", result |-> result, disk |-> d, dirs |-> ds, os |-> o,
     failed |-> failed, done |-> done]

Threw(d, ds, o, failed, done) ==
    [outcome |-> "threw", result |-> NoResult, disk |-> d, dirs |-> ds, os |-> o,
     failed |-> failed, done |-> done]

\* a template literal `${pre}${value}${post}`
Template(pre, value, post) == <<pre>> \o value \o <<post>>

\* fs.writeFileSync(path, content) that succeeds: the file is created or
\* replaced
WriteFile(d, path, content) ==
    {f \in d : f.path # path} \cup {[path |-> path, content |-> content]}

\* if (!fs.existsSync(dir)) fs.mkdirSync(dir, { recursive: true })
NeedsMkdir(ds, dir) == dir \notin ds
MkdirSync(ds, dir) == ds \cup {dir}

\* ---- the text of the written files ----------------------------------------
\* a TOML line whose value is written without the quotes
TomlPairUnquoted(key, value) == Line(key, " = ", "", value)

\* a line `key = "value"` of the TOML template
TomlPair(key, value) == Line(key, " = ", "\"", value)

\* a line `[colors.section]`
TomlTable(section) == Line("[colors." \o section \o "]", "", "", <<>>)

BlankLine == Line("", "", "", <<>>)

\* tomlContent of applyToAlacritty, line by line; the template ends with a
\* newline, so split('\n') has an empty last line
TomlContent(colors, themeName) ==
    << Line("#", " ", "", themeName \o <<" - Generated by ShellShade">>),
       TomlTable("primary"),
       TomlPair("background", colors.background),
       TomlPair("foreground", colors.foreground),
       BlankLine,
       TomlTable("cursor"),
       TomlPair("text", colors.cursorText),
       TomlPair("cursor", colors.cursor),
       BlankLine,
       TomlTable("selection"),
       TomlPair("text", colors.selectionText),
       TomlPair("background", colors.selection),
       BlankLine,
       TomlTable("normal"),
       TomlPair("black", colors.ansi.black),
       TomlPair("red", colors.ansi.red),
       TomlPair("green", colors.ansi.green),
       TomlPair("yellow", colors.ansi.yellow),
       TomlPair("blue", colors.ansi.blue),
       TomlPair("magenta", colors.ansi.magenta),
       TomlPair("cyan", colors.ansi.cyan),
       TomlPair("white", colors.ansi.white),
       BlankLine,
       TomlTable("bright"),
       TomlPair("black", colors.ansi.brightBlack),
       TomlPair("red", colors.ansi.brightRed),
       TomlPair("green", colors.ansi.brightGreen),
       TomlPair("yellow", colors.ansi.brightYellow),
       TomlPair("blue", colors.ansi.brightBlue),
       TomlPair("magenta", colors.ansi.brightMagenta),
       TomlPair("cyan", colors.ansi.brightCyan),
       TomlPair("white", colors.ansi.brightWhite),
       BlankLine >>

\* a Kitty line with '=' between the token and the value
KittyPairEquals(token, value) == Line(token, "=", "", value)

\* a line `token value` of the Kitty template
KittyPair(token, value) == Line(token, " ", "", value)

\* kittyTheme of applyToKitty, line by line
KittyTheme(colors, themeName) ==
    << Line("#", " ", "", themeName \o <<" - Generated by ShellShade">>),
       BlankLine,
       KittyPair("foreground", colors.foreground),
       KittyPair("background", colors.background),
       KittyPair("cursor", colors.cursor),
       KittyPair("cursor_text_color", colors.cursorText),
       KittyPair("selection_foreground", colors.selectionText),
       KittyPair("selection_background", colors.selection),
       BlankLine,
       Line("#", " ", "", <<"Normal colors">>),
       KittyPair("color0", colors.ansi.black),
       KittyPair("color1", colors.ansi.red),
       KittyPair("color2", colors.ansi.green),
       KittyPair("color3", colors.ansi.yellow),
       KittyPair("color4", colors.ansi.blue),
       KittyPair("color5", colors.ansi.magenta),
       KittyPair("color6", colors.ansi.cyan),
       KittyPair("color7", colors.ansi.white),
       BlankLine,
       Line("#", " ", "", <<"Bright colors">>),
       KittyPair("color8", colors.ansi.brightBlack),
       KittyPair("color9", colors.ansi.brightRed),
       KittyPair("color10", colors.ansi.brightGreen),
       KittyPair("color11", colors.ansi.brightYellow),
       KittyPair("color12", colors.ansi.brightBlue),
       KittyPair("color13", colors.ansi.brightMagenta),
       KittyPair("color14", colors.ansi.brightCyan),
       KittyPair("color15", colors.ansi.brightWhite),
       BlankLine >>

\* hex.slice(from, to)
Slice(hex, from, to) ==
    SubSeq(hex, from + 1, IF to < Len(hex) THEN to ELSE Len(hex))

\* the value of a hex digit of either case, -1 for any other character
HexDigitValue(c) ==
    CASE c = "0" -> 0 [] c = "1" -> 1 [] c = "2" -> 2 [] c = "3" -> 3
      [] c = "4" -> 4 [] c = "5" -> 5 [] c = "6" -> 6 [] c = "7" -> 7
      [] c = "8" -> 8 [] c = "9" -> 9
      [] c \in {"a", "A"} -> 10 [] c \in {"b", "B"} -> 11 [] c \in {"c", "C"} -> 12
      [] c \in {"d", "D"} -> 13 [] c \in {"e", "E"} -> 14 [] c \in {"f", "F"} -> 15
      [] OTHER -> -1

\* parseInt(text, 16) of at most two characters: the leading hex digits, NaN
\* (-1 here) when the first character is none
ParseInt16(text) ==
    IF text = <<>> \/ HexDigitValue(text[1]) < 0 THEN -1
    ELSE IF Len(text) < 2 \/ HexDigitValue(text[2]) < 0 THEN HexDigitValue(text[1])
    ELSE 16 * HexDigitValue(text[1]) + HexDigitValue(text[2])

\* parseInt(...) / d as JSON.stringify writes it: NaN is written as null
Quotient(v, d) == IF v < 0 THEN NoComp ELSE Comp(v, d)

\* hexToItermColorDict with 256 for 255
HexToItermColorDictBy256(hex) ==
    ColorDict(Quotient(ParseInt16(Slice(hex, 1, 3)), 256),
              Quotient(ParseInt16(Slice(hex, 3, 5)), 256),
              Quotient(ParseInt16(Slice(hex, 5, 7)), 256))

\* hexToItermColorDict (hexToItermColor of the CLI)
HexToItermColorDict(hex) ==
    ColorDict(Quotient(ParseInt16(Slice(hex, 1, 3)), 255),
              Quotient(ParseInt16(Slice(hex, 3, 5)), 255),
              Quotient(ParseInt16(Slice(hex, 5, 7)), 255))

\* the colour entries of Profiles[0]
ItermProfileDict(colors) ==
    [k \in PlistKeys |->
        CASE k = "Background Color" -> HexToItermColorDict(colors.background)
          [] k = "Foreground Color" -> HexToItermColorDict(colors.foreground)
          [] k = "Cursor Color" -> HexToItermColorDict(colors.cursor)
          [] k = "Cursor Text Color" -> HexToItermColorDict(colors.cursorText)
          [] k = "Selection Color" -> HexToItermColorDict(colors.selection)
          [] k = "Selected Text Color" -> HexToItermColorDict(colors.selectionText)
          [] k = "Ansi 0 Color" -> HexToItermColorDict(colors.ansi.black)
          [] k = "Ansi 1 Color" -> HexToItermColorDict(colors.ansi.red)
          [] k = "Ansi 2 Color" -> HexToItermColorDict(colors.ansi.green)
          [] k = "Ansi 3 Color" -> HexToItermColorDict(colors.ansi.yellow)
          [] k = "Ansi 4 Color" -> HexToItermColorDict(colors.ansi.blue)
          [] k = "Ansi 5 Color" -> HexToItermColorDict(colors.ansi.magenta)
          [] k = "Ansi 6 Color" -> HexToItermColorDict(colors.ansi.cyan)
          [] k = "Ansi 7 Color" -> HexToItermColorDict(colors.ansi.white)
          [] k = "Ansi 8 Color" -> HexToItermColorDict(colors.ansi.brightBlack)
          [] k = "Ansi 9 Color" -> HexToItermColorDict(colors.ansi.brightRed)
          [] k = "Ansi 10 Color" -> HexToItermColorDict(colors.ansi.brightGreen)
          [] k = "Ansi 11 Color" -> HexToItermColorDict(colors.ansi.brightYellow)
          [] k = "Ansi 12 Color" -> HexToItermColorDict(colors.ansi.brightBlue)
          [] k = "Ansi 13 Color" -> HexToItermColorDict(colors.ansi.brightMagenta)
          [] k = "Ansi 14 Color" -> HexToItermColorDict(colors.ansi.brightCyan)
          [] k = "Ansi 15 Color" -> HexToItermColorDict(colors.ansi.brightWhite)]

\* JSON.stringify(profile, null, 2): the document { Profiles: [{ Name, Guid,
\* ...colours }] }; the Guid is kept in the artifact
ItermProfile(colors, themeName) ==
    JsonData("object", <<>>, JsonNoColors, <<Profile(themeName, ItermProfileDict(colors))>>)

\* the text of the file for the formats whose text is read back or
\* inspected; the Warp, Konsole and GNOME texts are represented by the
\* values interpolated into them only
Body(format, themeName, themeId, colors) ==
    CASE format = "alacritty" -> TomlContent(colors, themeName)
      [] format = "kitty" -> KittyTheme(colors, themeName)
      [] format = "iterm2" -> ItermProfile(colors, themeName)
      [] OTHER -> <<>>

\* the artifact written for a theme: the values interpolated into it and
\* its text
Artifact(format, themeName, themeId, colors) ==
    [format |-> format, name |-> themeName, guid |-> themeId, colors |-> colors,
     body |-> Body(format, themeName, themeId, colors)]

\* execAsync / execSync of a script: every call counts, whatever its end
Exec(o) == [o EXCEPT !.runs = o.runs + 1]

\* ---- main/services/installer ------------------------------------------
ItermDir == "~/Library/Application Support/iTerm2/DynamicProfiles"

\* a catch (scriptErr) that undoes the write and reports the failure
ItermScriptFailedRollback(profilePath, themeName, written, ds) ==
    Returned(InstallResult(FALSE, profilePath, Absent, <<"Failed to apply profile">>),
             disk, ds, Exec(os), {"script"}, {})

\* catch (scriptErr): the AppleScript failed, but the profile was created
ItermScriptFailed(profilePath, themeName, written, ds) ==
    Returned(InstallResult(TRUE, profilePath,
                           Template("Theme ", themeName,
                                    " installed. Open iTerm2 and select it"),
                           Absent),
             written, ds, Exec(os), {"script"}, {"write"})

\* installToIterm2(themeId); env says which of the steps fail
InstallToIterm2(themeId, rows, nameRow, env) ==
    LET colors == GetThemeColors(rows)
        themeName == GetThemeName(nameRow)
        profilePath == PathJoin(ItermDir, <<>>, SlugName(themeName, "-"), <<".json">>)
        ds == IF NeedsMkdir(dirs, ItermDir) THEN MkdirSync(dirs, ItermDir) ELSE dirs
        written == WriteFile(disk, profilePath, Artifact("iterm2", themeName, <<themeId>>, colors))
    IN  IF colors = NoColors
        THEN Returned(InstallResult(FALSE, NoPath, Absent, <<"Theme not found">>),
                      disk, dirs, os, {}, {})
        ELSE IF NeedsMkdir(dirs, ItermDir) /\ ~env.mkdirOk
        THEN Threw(disk, dirs, os, {"mkdir"}, {})
        ELSE IF ~env.writeOk
        THEN Returned(InstallResult(FALSE, profilePath, Absent,
                                    <<"Failed to write profile: ", "Error">>),
                      disk, ds, os, {"write"}, {})
        ELSE IF env.scriptOk
        THEN Returned(InstallResult(TRUE, profilePath,
                                    Template("Theme ", themeName, " applied to iTerm2!"), Absent),
                      written, ds, [Exec(os) EXCEPT !.iterm = themeName],
                      {}, {"write", "script"})
        ELSE ItermScriptFailed(profilePath, themeName, written, ds)

\* the createProfileScript / appleScript of Terminal.app carried out: the
\* settings set exists and is the default and startup profile
TerminalSetDefault(o, themeName) ==
    [o EXCEPT !.termProfiles = @ \cup {themeName}, !.termDefault = themeName]

\* the applyScript carried out: the open windows use the settings set
TerminalApplyToWindows(o, themeName) == [o EXCEPT !.termWindows = themeName]

\* an apply failure that fails the whole install
TerminalApplyFailedFatal(themeName, created) ==
    Returned(InstallResult(FALSE, NoPath, Absent, <<"Failed to apply to open windows">>),
             disk, dirs, Exec(created), {"apply"}, {"create"})

\* catch (applyErr) and the else branch: the profile is saved, the open
\* windows were not changed
TerminalApplyFailed(themeName, created) ==
    Returned(InstallResult(TRUE, NoPath,
                           Template("Theme ", themeName,
                                    " saved to Terminal profiles. Select it"),
                           Absent),
             disk, dirs, Exec(created), {"apply"}, {"create"})

\* installToTerminalApp(themeId)
InstallToTerminalApp(themeId, rows, nameRow, env) ==
    LET colors == GetThemeColors(rows)
        themeName == GetThemeName(nameRow)
        created == TerminalSetDefault(Exec(os), themeName)
    IN  IF colors = NoColors
        THEN Returned(InstallResult(FALSE, NoPath, Absent, <<"Theme not found">>),
                      disk, dirs, os, {}, {})
        ELSE IF ~env.scriptOk
        THEN Returned(InstallResult(FALSE, NoPath, Absent,
                                    <<"Failed to create Terminal profile. Make sure Terminal.app is running.">>),
                      disk, dirs, Exec(os), {"create"}, {})
        ELSE IF env.applyOk
        THEN Returned(InstallResult(TRUE, NoPath,
                                    Template("Theme ", themeName, " applied! Profile saved"), Absent),
                      disk, dirs, TerminalApplyToWindows(Exec(created), themeName),
                      {}, {"create", "apply"})
        ELSE TerminalApplyFailed(themeName, created)

\* setTerminalDefault(themeId)
SetTerminalDefault(themeId, rows, nameRow, env) ==
    LET colors == GetThemeColors(rows)
        themeName == GetThemeName(nameRow)
    IN  IF colors = NoColors
        THEN Returned(InstallResult(FALSE, NoPath, Absent, <<"Theme not found">>),
                      disk, dirs, os, {}, {})
        ELSE IF env.scriptOk
        THEN Returned(InstallResult(TRUE, NoPath,
                                    Template("Theme ", themeName, " is now the default Terminal.app profile!"),
                                    Absent),
                      disk, dirs, TerminalSetDefault(Exec(os), themeName), {}, {"create"})
        ELSE Returned(InstallResult(FALSE, NoPath, Absent, <<"Failed to set default: ", "Error">>),
                      disk, dirs, Exec(os), {"create"}, {})

\* ---- the CLI: applyTo... ------------------------------------------------
\* applyToTerminalApp(colors, themeName): one script; inside it the change
\* of each open window is wrapped in try ... end try
ApplyToTerminalApp(colors, themeName, env) ==
    IF ~env.scriptOk
    THEN Returned(CliResult(FALSE, <<"Theme saved to profiles. Select in Terminal">>),
                  disk, dirs, Exec(os), {"create"}, {})
    ELSE IF env.applyOk
    THEN Returned(CliResult(TRUE, <<"Theme applied and set as default!">>),
                  disk, dirs,
                  TerminalApplyToWindows(TerminalSetDefault(Exec(os), themeName), themeName),
                  {}, {"create", "apply"})
    ELSE Returned(CliResult(TRUE, <<"Theme applied and set as default!">>),
                  disk, dirs, TerminalSetDefault(Exec(os), themeName),
                  {"apply"}, {"create"})

\* applyToIterm2(colors, themeName, themeId)
ApplyToIterm2(colors, themeName, themeId, env) ==
    LET profilePath == PathJoin(ItermDir, <<"shellshade-">>, SlugName(themeName, "-"),
                                <<".json">>)
        ds == IF NeedsMkdir(dirs, ItermDir) THEN MkdirSync(dirs, ItermDir) ELSE dirs
        written == WriteFile(disk, profilePath, Artifact("iterm2", themeName, <<themeId>>, colors))
    IN  IF NeedsMkdir(dirs, ItermDir) /\ ~env.mkdirOk
        THEN Threw(disk, dirs, os, {"mkdir"}, {})
        ELSE IF ~env.writeOk
        THEN Returned(CliResult(FALSE, <<"Failed to install profile.">>),
                      disk, ds, os, {"write"}, {})
        ELSE IF env.scriptOk
        THEN Returned(CliResult(TRUE, <<"Theme applied to all sessions!">>),
                      written, ds, [Exec(os) EXCEPT !.iterm = themeName],
                      {}, {"write", "script"})
        ELSE Returned(CliResult(TRUE, <<"Profile installed. Select from Profiles menu or restart iTerm2.">>),
                      written, ds, Exec(os), {"script"}, {"write"})

\* The shape shared by applyToWarp, applyToAlacritty, applyToKitty and
\* applyToKonsole: mkdir of the themes directory before the try, then
\* writeFileSync of `${slugName}${ext}` inside it
WriteThemeFile(dir, ext, format, failure, colors, themeName, env) ==
    LET themePath == PathJoin(dir, <<>>, SlugName(themeName, "_"), <<ext>>)
        ds == IF NeedsMkdir(dirs, dir) THEN MkdirSync(dirs, dir) ELSE dirs
    IN  IF NeedsMkdir(dirs, dir) /\ ~env.mkdirOk
        THEN Threw(disk, dirs, os, {"mkdir"}, {})
        ELSE IF ~env.writeOk
        THEN Returned(CliResult(FALSE, <<failure>>), disk, ds, os, {"write"}, {})
        ELSE Returned(CliResult(TRUE, <<"Theme saved to ", themePath.dir, "/">> \o themePath.file),
                      WriteFile(disk, themePath, Artifact(format, themeName, Absent, colors)),
                      ds, os, {}, {"write"})

\* applyToWarp(colors, themeName)
ApplyToWarp(colors, themeName, env) ==
    WriteThemeFile("~/.warp/themes", ".yaml", "warp", "Failed to write theme file.",
                   colors, themeName, env)

\* applyToAlacritty(colors, themeName)
ApplyToAlacritty(colors, themeName, env) ==
    WriteThemeFile("~/.config/alacritty/themes", ".toml", "alacritty",
                   "Failed to write theme file.", colors, themeName, env)

\* applyToKitty(colors, themeName)
ApplyToKitty(colors, themeName, env) ==
    WriteThemeFile("~/.config/kitty/themes", ".conf", "kitty",
                   "Failed to write theme file.", colors, themeName, env)

\* applyToKonsole(colors, themeName)
ApplyToKonsole(colors, themeName, env) ==
    WriteThemeFile("~/.local/share/konsole", ".colorscheme", "konsole",
                   "Failed to write colorscheme file.", colors, themeName, env)

\* applyToGnomeTerminal(colors, themeName); now is Date.now()
GnomeFallbackDir == "~/.config/shellshade"

ApplyToGnomeTerminal(colors, themeName, now, env) ==
    LET slugName == SlugName(themeName, "-")
        script == Artifact("gnome-script", themeName, <<"shellshade-">> \o slugName, colors)
        scriptPath == [dir |-> "os.tmpdir()", file |-> <<"shellshade-gnome-", now, ".sh">>]
        fallbackPath == PathJoin(GnomeFallbackDir, <<"gnome-">>, slugName, <<".sh">>)
        tmp == WriteFile(disk, scriptPath, script)
        \* the try block: write the script, run it, delete it
        tryOk == env.writeOk /\ env.scriptOk /\ env.unlinkOk
        afterTry ==
            IF ~env.writeOk THEN [d |-> disk, o |-> os, failed |-> {"write"}, done |-> {}]
            ELSE IF ~env.scriptOk
            THEN [d |-> tmp, o |-> Exec(os), failed |-> {"script"}, done |-> {"write"}]
            ELSE [d |-> tmp,
                  o |-> [Exec(os) EXCEPT !.gnomeDefault = <<"shellshade-">> \o slugName],
                  failed |-> {"unlink"}, done |-> {"write", "script"}]
        ds == IF NeedsMkdir(dirs, GnomeFallbackDir)
              THEN MkdirSync(dirs, GnomeFallbackDir) ELSE dirs
    IN  IF tryOk
        THEN Returned(CliResult(TRUE, <<"Theme applied to GNOME Terminal!">>),
                      disk, dirs,
                      [Exec(os) EXCEPT !.gnomeDefault = <<"shellshade-">> \o slugName],
                      {}, {"write", "script", "unlink"})
        \* the catch block
        ELSE IF NeedsMkdir(dirs, GnomeFallbackDir) /\ ~env.mkdirOk
        THEN Threw(afterTry.d, dirs, afterTry.o, afterTry.failed \cup {"mkdir"}, afterTry.done)
        ELSE IF ~env.fallbackOk
        THEN Threw(afterTry.d, ds, afterTry.o,
                   afterTry.failed \cup {"fallback"}, afterTry.done)
        ELSE Returned(CliResult(TRUE, <<"Script saved to ", fallbackPath.dir, "/">>
                                        \o fallbackPath.file \o <<"Run it manually">>),
                      WriteFile(afterTry.d, fallbackPath, script), ds, afterTry.o,
                      afterTry.failed, afterTry.done \cup {"fallback"})

\* getFullThemeColors of the CLI: the same lookup as getThemeColors
GetFullThemeColors(rows) == GetThemeColors(rows)

\* ---- the store and the calls ----------------------------------------------
Name_TokyoNight == <<"T", "o", "k", "y", "o", " ", "N", "i", "g", "h", "t">>
Name_tokyo_night == <<"t", "o", "k", "y", "o", "_", "n", "i", "g", "h", "t">>
Name_Nord == <<"N", "o", "r", "d">>
Name_TokyoNightStorm == Name_TokyoNight \o <<" ", "S", "t", "o", "r", "m">>

\* theme_colors rows that hold every key of a ThemeColors value
RowsOf(colors) ==
    [k \in RowKeys |->
        IF k \in CoreSlots THEN colors[k]
        ELSE colors.ansi[CHOOSE n \in AnsiSlots : k = "ansi_" \o n]]

\* The themes and theme_colors tables.  t1, t2 and t5 have colour rows, t3 is
\* a theme without colour rows, t4 is an id neither table knows; t5 is a
\* favourite (is_favorite = 1).
Store ==
    [id \in {"t1", "t2", "t3", "t4", "t5"} |->
        CASE id = "t1" -> [name |-> Name_TokyoNight, favorite |-> FALSE,
                           rows |-> RowsOf(TokyoNightColors)]
          [] id = "t2" -> [name |-> Name_tokyo_night, favorite |-> FALSE,
                           rows |-> [k \in {"background"} |-> Hex("2", "8", "2", "a", "3", "6")]]
          [] id = "t3" -> [name |-> Name_Nord, favorite |-> FALSE, rows |-> NoRows]
          [] id = "t4" -> [name |-> Absent, favorite |-> FALSE, rows |-> NoRows]
          [] id = "t5" -> [name |-> Name_TokyoNightStorm, favorite |-> TRUE,
                           rows |-> [k \in {"background"} |-> Hex("2", "4", "2", "8", "3", "b")]]]

\* the ids the installer calls are made with
ThemeIds == {"t1", "t2", "t3", "t4"}
\* the themes the CLI lists (rows of the themes table)
ListedIds == {id \in ThemeIds : Store[id].name # Absent}

Terminals == {"terminal", "iterm2", "warp", "windows-terminal", "powershell",
              "alacritty", "kitty", "gnome-terminal", "konsole"}

\* which steps of a call the environment lets succeed
Envs ==
    [mkdirOk : BOOLEAN, writeOk : BOOLEAN, scriptOk : BOOLEAN,
     applyOk : BOOLEAN, unlinkOk : BOOLEAN, fallbackOk : BOOLEAN]

\* only the steps in uses may fail: the others are not part of the call
EnvsOf(uses) ==
    {e \in Envs : \A f \in {"mkdirOk", "writeOk", "scriptOk", "applyOk",
                            "unlinkOk", "fallbackOk"} \ uses : e[f]}

MaxCalls == 2

\* Date.now() of the n-th call, as text
ClockText(n) == <<"1700000000001", "1700000000002", "1700000000003",
                  "1700000000004">>[n]

\* the OS side: scripts executed so far, the profile of the iTerm2
\* sessions, the settings sets of Terminal.app with the default one and the
\* one of the open windows, and the default profile of GNOME Terminal
NoOs ==
    [runs |-> 0, iterm |-> Absent, termProfiles |-> {}, termDefault |-> Absent,
     termWindows |-> Absent, gnomeDefault |-> Absent]

NoCall ==
    [count |-> 0, op |-> "none", terminal |-> "none", themeId |-> "none",
     themeName |-> <<>>, outcome |-> "none", result |-> NoResult,
     failed |-> {}, done |-> {},
     before |-> [disk |-> {}, dirs |-> {}, os |-> NoOs,
                 wtFile |-> NoSettingsFile, psFile |-> ProfileFile(FALSE, <<>>)]]

\* the state after one call that ended as e
Commit(op, terminal, themeId, themeName, e) ==
    /\ instLast' = [count |-> instLast.count + 1, op |-> op, terminal |-> terminal,
                    themeId |-> themeId,
                    themeName |-> themeName, outcome |-> e.outcome, result |-> e.result,
                    failed |-> e.failed, done |-> e.done,
                    before |-> [disk |-> disk, dirs |-> dirs, os |-> os,
                                wtFile |-> wtFile, psFile |-> psFile]]
    /\ disk' = e.disk
    /\ dirs' = e.dirs
    /\ os' = e.os

\* the directory a target writes to
TargetDir(terminal) ==
    CASE terminal = "iterm2" -> ItermDir
      [] terminal = "warp" -> "~/.warp/themes"
      [] terminal = "alacritty" -> "~/.config/alacritty/themes"
      [] terminal = "kitty" -> "~/.config/kitty/themes"
      [] terminal = "konsole" -> "~/.local/share/konsole"
      [] terminal = "gnome-terminal" -> GnomeFallbackDir
      [] OTHER -> ""

\* The steps of a call that the environment can fail: none when the lookup
\* ends the call, and mkdir only when the directory is missing
MayFail(id, dir, steps) ==
    IF Store[id].rows = NoRows THEN {}
    ELSE steps \cup (IF dir # "" /\ NeedsMkdir(dirs, dir) THEN {"mkdirOk"} ELSE {})

\* the steps of applyTheme's target that the environment can fail
UsesOf(id, terminal) ==
    MayFail(id, TargetDir(terminal),
            CASE terminal = "terminal" -> {"scriptOk", "applyOk"}
              [] terminal = "iterm2" -> {"writeOk", "scriptOk"}
              [] terminal = "gnome-terminal" ->
                    {"writeOk", "scriptOk", "unlinkOk", "fallbackOk"}
              [] OTHER -> {"writeOk"})

\* applyTheme(db, themeId, themeName, terminal) for the targets that write
\* theme files or drive the OS
ApplyTheme(themeId, themeName, terminal, now, env) ==
    LET colors == GetFullThemeColors(Store[themeId].rows)
    IN  IF colors = NoColors
        THEN Returned(CliResult(FALSE, <<"Theme not found">>), disk, dirs, os, {}, {})
        ELSE CASE terminal = "terminal" -> ApplyToTerminalApp(colors, themeName, env)
               [] terminal = "iterm2" -> ApplyToIterm2(colors, themeName, themeId, env)
               [] terminal = "warp" -> ApplyToWarp(colors, themeName, env)
               [] terminal = "gnome-terminal" ->
                     ApplyToGnomeTerminal(colors, themeName, now, env)
               [] terminal = "konsole" -> ApplyToKonsole(colors, themeName, env)
               [] terminal = "alacritty" -> ApplyToAlacritty(colors, themeName, env)
               [] terminal = "kitty" -> ApplyToKitty(colors, themeName, env)
               [] OTHER ->
                     Returned(CliResult(FALSE, <<"Unsupported terminal">>),
                              disk, dirs, os, {}, {})

\* ipcMain.handle(INSTALL_ITERM2): installToIterm2(themeId)
InstallIterm2Call ==
    /\ instLast.count < MaxCalls
    /\ \E id \in ThemeIds :
       \E env \in EnvsOf(MayFail(id, ItermDir, {"writeOk", "scriptOk"})) :
          Commit("installToIterm2", "none", id, GetThemeName(Store[id].name),
                 InstallToIterm2(id, Store[id].rows, Store[id].name, env))
    /\ UNCHANGED <<parseVars, wtVars, psVars, cliVars, raceVars, impVars>>

\* ipcMain.handle(INSTALL_TERMINAL_APP): installToTerminalApp(themeId)
InstallTerminalAppCall ==
    /\ instLast.count < MaxCalls
    /\ \E id \in ThemeIds :
       \E env \in EnvsOf(MayFail(id, "", {"scriptOk", "applyOk"})) :
          Commit("installToTerminalApp", "none", id, GetThemeName(Store[id].name),
                 InstallToTerminalApp(id, Store[id].rows, Store[id].name, env))
    /\ UNCHANGED <<parseVars, wtVars, psVars, cliVars, raceVars, impVars>>

\* ipcMain.handle('install:set-terminal-default'): setTerminalDefault(themeId)
SetTerminalDefaultCall ==
    /\ instLast.count < MaxCalls
    /\ \E id \in ThemeIds :
       \E env \in EnvsOf(MayFail(id, "", {"scriptOk"})) :
          Commit("setTerminalDefault", "none", id, GetThemeName(Store[id].name),
                 SetTerminalDefault(id, Store[id].rows, Store[id].name, env))
    /\ UNCHANGED <<parseVars, wtVars, psVars, cliVars, raceVars, impVars>>

\* applyTheme(db, theme.id, theme.name, terminal) of the CLI, file and OS targets
ApplyThemeCall ==
    /\ instLast.count < MaxCalls
    /\ \E id \in ListedIds,
          terminal \in Terminals \ {"windows-terminal", "powershell"} :
          \E env \in EnvsOf(UsesOf(id, terminal)) :
             Commit("applyTheme", terminal, id, Store[id].name,
                    ApplyTheme(id, Store[id].name, terminal,
                               ClockText(instLast.count + 1), env))
    /\ UNCHANGED <<parseVars, wtVars, psVars, cliVars, raceVars, impVars>>

\* applyTheme for the two Windows targets: the settings merge or the profile
\* injection, and the call's record
ApplyThemeWindows(id, themeName, terminal) ==
    LET colors == GetFullThemeColors(Store[id].rows)
        call == [NoCall EXCEPT !.count = instLast.count + 1, !.op = "applyTheme",
                               !.terminal = terminal, !.themeId = id,
                               !.themeName = themeName,
                               !.outcome = "returned",
                               !.before = [disk |-> disk, dirs |-> dirs, os |-> os,
                                           wtFile |-> wtFile, psFile |-> psFile]]
    IN  /\ IF colors = NoColors
           THEN /\ instLast' = [call EXCEPT
                                  !.result = CliResult(FALSE, <<"Theme not found">>)]
                /\ UNCHANGED <<wtVars, psVars>>
           ELSE IF terminal = "windows-terminal"
           THEN /\ ApplyToWindowsTerminal(colors, themeName)
                /\ instLast' = [call EXCEPT
                                  !.result = CliResult(wtLast'.success,
                                                       <<"Windows Terminal">>)]
                /\ UNCHANGED psVars
           ELSE /\ ApplyToPowerShell(colors, themeName)
                /\ instLast' = [call EXCEPT
                                  !.result = CliResult(TRUE, <<"PowerShell">>)]
                /\ UNCHANGED wtVars
        /\ UNCHANGED <<disk, dirs, os>>

\* applyTheme of the CLI for the two Windows targets
ApplyThemeWindowsCall ==
    /\ instLast.count < MaxCalls
    /\ \E id \in ListedIds, terminal \in {"windows-terminal", "powershell"} :
          ApplyThemeWindows(id, Store[id].name, terminal)
    /\ UNCHANGED <<parseVars, cliVars, raceVars, impVars>>

(***************************************************************************)
(* The CLI: platform, terminal detection and `shellshade apply`            *)
(***************************************************************************)
Platforms == {"macos", "windows", "linux"}

\* platformTerminals
platformTerminals ==
    [p \in Platforms |->
        CASE p = "macos" -> <<"terminal", "iterm2", "warp", "alacritty", "kitty">>
          [] p = "windows" -> <<"windows-terminal", "powershell", "alacritty", "kitty">>
          [] p = "linux" -> <<"gnome-terminal", "konsole", "alacritty", "kitty">>]

\* String.prototype.includes
Includes(s, sub) ==
    \E i \in 0..(Len(s) - Len(sub)) : SubSeq(s, i + 1, i + Len(sub)) = sub

\* detectTerminal without the platform branches: the macOS checks only
DetectTerminalMacOnly(platform, env) ==
    LET term == NameToLowerCase(env.TERM_PROGRAM)
        termId == NameToLowerCase(env.LC_TERMINAL)
    IN  IF Includes(term, <<"i", "t", "e", "r", "m">>)
           \/ Includes(termId, <<"i", "t", "e", "r", "m">>) THEN "iterm2"
        ELSE IF Includes(term, <<"w", "a", "r", "p">>)
                \/ Truthy(env.WARP_IS_LOCAL_SHELL_SESSION) THEN "warp"
        ELSE IF Includes(term, <<"a", "l", "a", "c", "r", "i", "t", "t", "y">>)
             THEN "alacritty"
        ELSE IF Includes(term, <<"k", "i", "t", "t", "y">>) \/ Truthy(env.KITTY_WINDOW_ID)
             THEN "kitty"
        ELSE "terminal"

\* detectTerminal(); a variable of process.env that is not set is <<>>, which
\* is as falsy as the empty string
DetectTerminal(platform, env) ==
    LET term == NameToLowerCase(env.TERM_PROGRAM)
        termId == NameToLowerCase(env.LC_TERMINAL)
        alacritty == Includes(term, <<"a", "l", "a", "c", "r", "i", "t", "t", "y">>)
    IN  IF platform = "windows"
        THEN IF Truthy(env.WT_SESSION) THEN "windows-terminal"
             ELSE IF Truthy(env.PSModulePath) THEN "powershell"
             ELSE IF alacritty THEN "alacritty"
             ELSE IF Truthy(env.KITTY_WINDOW_ID) THEN "kitty"
             ELSE "windows-terminal"
        ELSE IF platform = "linux"
        THEN IF Truthy(env.GNOME_TERMINAL_SCREEN) THEN "gnome-terminal"
             ELSE IF Truthy(env.KONSOLE_VERSION) THEN "konsole"
             ELSE IF alacritty THEN "alacritty"
             ELSE IF Truthy(env.KITTY_WINDOW_ID) THEN "kitty"
             ELSE "gnome-terminal"
        ELSE IF Includes(term, <<"i", "t", "e", "r", "m">>)
                \/ Includes(termId, <<"i", "t", "e", "r", "m">>) THEN "iterm2"
        ELSE IF Includes(term, <<"w", "a", "r", "p">>)
                \/ Truthy(env.WARP_IS_LOCAL_SHELL_SESSION) THEN "warp"
        ELSE IF alacritty THEN "alacritty"
        ELSE IF Includes(term, <<"k", "i", "t", "t", "y">>) \/ Truthy(env.KITTY_WINDOW_ID)
             THEN "kitty"
        ELSE "terminal"

\* Object.keys(terminalNames), in insertion order
TerminalKeys ==
    <<"terminal", "iterm2", "warp", "windows-terminal", "powershell", "alacritty",
      "kitty", "gnome-terminal", "konsole">>

\* the characters of a Terminal identifier
KeyChars(t) ==
    CASE t = "terminal" -> <<"t", "e", "r", "m", "i", "n", "a", "l">>
      [] t = "iterm2" -> <<"i", "t", "e", "r", "m", "2">>
      [] t = "warp" -> <<"w", "a", "r", "p">>
      [] t = "windows-terminal" ->
           <<"w", "i", "n", "d", "o", "w", "s", "-", "t", "e", "r", "m", "i", "n", "a", "l">>
      [] t = "powershell" -> <<"p", "o", "w", "e", "r", "s", "h", "e", "l", "l">>
      [] t = "alacritty" -> <<"a", "l", "a", "c", "r", "i", "t", "t", "y">>
      [] t = "kitty" -> <<"k", "i", "t", "t", "y">>
      [] t = "gnome-terminal" ->
           <<"g", "n", "o", "m", "e", "-", "t", "e", "r", "m", "i", "n", "a", "l">>
      [] t = "konsole" -> <<"k", "o", "n", "s", "o", "l", "e">>

\* terminalNames
terminalNames(t) ==
    CASE t = "terminal" -> <<"T", "e", "r", "m", "i", "n", "a", "l", ".", "a", "p", "p">>
      [] t = "iterm2" -> <<"i", "T", "e", "r", "m", "2">>
      [] t = "warp" -> <<"W", "a", "r", "p">>
      [] t = "windows-terminal" ->
           <<"W", "i", "n", "d", "o", "w", "s", " ", "T", "e", "r", "m", "i", "n", "a", "l">>
      [] t = "powershell" -> <<"P", "o", "w", "e", "r", "S", "h", "e", "l", "l">>
      [] t = "alacritty" -> <<"A", "l", "a", "c", "r", "i", "t", "t", "y">>
      [] t = "kitty" -> <<"K", "i", "t", "t", "y">>
      [] t = "gnome-terminal" ->
           <<"G", "N", "O", "M", "E", " ", "T", "e", "r", "m", "i", "n", "a", "l">>
      [] t = "konsole" -> <<"K", "o", "n", "s", "o", "l", "e">>

FlagLong == <<"-", "-", "t", "e", "r", "m", "i", "n", "a", "l">>
FlagShort == <<"-", "t">>

\* a === '--terminal' || a === '-t'
IsTerminalFlag(a) == a = FlagLong \/ a = FlagShort

\* args[k] of the 0-based JavaScript array: undefined outside the array
ArgAt(args, k) == IF k >= 0 /\ k < Len(args) THEN args[k + 1] ELSE Absent

\* args.findIndex(a => a === '--terminal' || a === '-t')
TerminalFlagIndex(args) ==
    IF \E k \in DOMAIN args : IsTerminalFlag(args[k])
    THEN (CHOOSE k \in DOMAIN args :
             /\ IsTerminalFlag(args[k])
             /\ \A j \in 1..(k - 1) : ~IsTerminalFlag(args[j])) - 1
    ELSE -1

\* Object.keys(terminalNames).find(t => t === termArg ||
\*     terminalNames[t].toLowerCase().includes(termArg)); "none" is undefined
MatchedTerminal(termArg) ==
    LET hits == {k \in DOMAIN TerminalKeys :
                    \/ KeyChars(TerminalKeys[k]) = termArg
                    \/ Includes(NameToLowerCase(terminalNames(TerminalKeys[k])), termArg)}
    IN  IF hits = {} THEN "none"
        ELSE TerminalKeys[CHOOSE k \in hits : \A j \in hits : k <= j]

\* a flag that is read but never changes the target
TargetTerminalIgnoresFlag(args, currentTerminal) == currentTerminal

\* the target of the apply command: the terminal named after the flag when
\* it is one, the current terminal otherwise
TargetTerminal(args, currentTerminal) ==
    LET terminalFlagIndex == TerminalFlagIndex(args)
        value == ArgAt(args, terminalFlagIndex + 1)
    IN  IF terminalFlagIndex # -1 /\ Truthy(value)
        THEN LET matchedTerminal == MatchedTerminal(NameToLowerCase(value))
             IN  IF matchedTerminal # "none" THEN matchedTerminal ELSE currentTerminal
        ELSE currentTerminal

\* Array.prototype.join(' ')
RECURSIVE JoinSpace(_)
JoinSpace(words) ==
    IF words = <<>> THEN <<>>
    ELSE IF Len(words) = 1 THEN words[1]
    ELSE words[1] \o <<" ">> \o JoinSpace(Tail(words))

\* the indices of a 0-based array that a filter callback keeps, as the
\* sequence of the kept elements
FilterByIndex(arr, Keep(_)) ==
    LET kept == {k \in DOMAIN arr : Keep(k - 1)}
    IN  [n \in 1..Cardinality(kept) |->
            arr[CHOOSE k \in kept : Cardinality({j \in kept : j <= k}) = n]]

\* args.slice(1).filter((_, i) => i !== terminalFlagIndex - 1 &&
\*     i !== terminalFlagIndex).join(' ') || args[1]
ThemeNameArg(args) ==
    LET terminalFlagIndex == TerminalFlagIndex(args)
        Keep(i) == i # terminalFlagIndex - 1 /\ i # terminalFlagIndex
        joined == JoinSpace(FilterByIndex(Tail(args), Keep))
    IN  IF Truthy(joined) THEN joined ELSE ArgAt(args, 1)

\* the characters of the model's names in the order of their codes, for the
\* BINARY collation of ORDER BY t.name
CodeOrder ==
    <<" ", "-", "0", "1", "2", "3", "4", "5", "6", "7", "8", "9">> \o UpperCase
    \o <<"_">> \o LowerCase

CharCode(c) == CHOOSE i \in DOMAIN CodeOrder : CodeOrder[i] = c

\* a < b in the BINARY collation
RECURSIVE NameBefore(_, _)
NameBefore(a, b) ==
    IF b = <<>> THEN FALSE
    ELSE IF a = <<>> THEN TRUE
    ELSE IF CharCode(Head(a)) # CharCode(Head(b)) THEN CharCode(Head(a)) < CharCode(Head(b))
    ELSE NameBefore(Tail(a), Tail(b))

\* CASE WHEN t.name LIKE '%Light%' OR ... '%Latte%' OR ... '%Dawn%' THEN 1 ELSE 0
\* (LIKE ignores the case of ASCII letters)
LightRank(name) ==
    IF \/ Includes(NameToLowerCase(name), <<"l", "i", "g", "h", "t">>)
       \/ Includes(NameToLowerCase(name), <<"l", "a", "t", "t", "e">>)
       \/ Includes(NameToLowerCase(name), <<"d", "a", "w", "n">>)
    THEN 1 ELSE 0

\* ORDER BY t.is_favorite DESC, <light rank>, t.name
ListedBefore(a, b) ==
    IF a.favorite # b.favorite THEN a.favorite
    ELSE IF LightRank(a.name) # LightRank(b.name) THEN LightRank(a.name) < LightRank(b.name)
    ELSE NameBefore(a.name, b.name)

\* getThemes(db): one row per row of the themes table (LEFT JOIN), ordered
GetThemes ==
    LET ids == {id \in DOMAIN Store : Store[id].name # Absent}
        Row(id) == [id |-> id, name |-> Store[id].name, favorite |-> Store[id].favorite]
    IN  [n \in 1..Cardinality(ids) |->
            Row(CHOOSE id \in ids :
                   Cardinality({o \in ids : ListedBefore(Row(o), Row(id))}) = n - 1)]

\* themes.find(t => t.name.toLowerCase() === themeName.toLowerCase() ||
\*     t.name.toLowerCase().includes(themeName.toLowerCase())); "none" is
\* undefined
FindTheme(themes, themeName) ==
    LET hits == {k \in DOMAIN themes :
                    \/ NameToLowerCase(themes[k].name) = NameToLowerCase(themeName)
                    \/ Includes(NameToLowerCase(themes[k].name), NameToLowerCase(themeName))}
    IN  IF hits = {} THEN "none"
        ELSE themes[CHOOSE k \in hits : \A j \in hits : k <= j].id

\* ---- one run of the command -------------------------------------------------
Unset == <<>>
Set == <<"1">>

\* process.env, as far as detectTerminal reads it
ProcessEnvs ==
    [TERM_PROGRAM : {Unset, <<"i", "T", "e", "r", "m", ".", "a", "p", "p">>,
                     <<"W", "a", "r", "p", "T", "e", "r", "m", "i", "n", "a", "l">>,
                     <<"a", "l", "a", "c", "r", "i", "t", "t", "y">>,
                     <<"k", "i", "t", "t", "y">>,
                     <<"A", "p", "p", "l", "e", "_", "T", "e", "r", "m", "i", "n", "a", "l">>},
     LC_TERMINAL : {Unset, <<"i", "T", "e", "r", "m", "2">>},
     WT_SESSION : {Unset, Set},
     PSModulePath : {Unset, Set},
     KITTY_WINDOW_ID : {Unset, Set},
     GNOME_TERMINAL_SCREEN : {Unset, Set},
     KONSOLE_VERSION : {Unset, Set},
     WARP_IS_LOCAL_SHELL_SESSION : {Unset, Set}]

Word_apply == <<"a", "p", "p", "l", "y">>
Word_tokyo == <<"t", "o", "k", "y", "o">>
Word_night == <<"n", "i", "g", "h", "t">>
Word_nord == <<"n", "o", "r", "d">>
Word_dracula == <<"d", "r", "a", "c", "u", "l", "a">>

\* the words typed for the theme
NameWords ==
    { <<Name_TokyoNight>>, <<Word_tokyo, Word_night>>, <<Word_tokyo>>, <<Word_nord>>,
      <<Name_tokyo_night>>, <<Word_dracula>> }

\* what is typed after the flag: the nine identifiers, one in capitals, a
\* display name and a word that names no terminal
FlagValues ==
    {KeyChars(TerminalKeys[k]) : k \in DOMAIN TerminalKeys}
    \cup { <<"I", "T", "E", "R", "M", "2">>, <<"g", "n", "o", "m", "e">>,
           <<"x", "t", "e", "r", "m">> }

\* s with the elements of ins inserted after its first at elements
InsertAt(s, at, ins) == SubSeq(s, 1, at) \o ins \o SubSeq(s, at + 1, Len(s))

\* process.argv.slice(2) of the runs of `shellshade apply`: the words of the
\* name, alone or with the flag and its value (or the flag alone) put
\* before, between or after them, and the flag and its value without a name
ArgLists ==
    { <<Word_apply>> \o w : w \in NameWords }
    \cup UNION { { <<Word_apply>> \o InsertAt(w, at, <<f, v>>) :
                      at \in 0..Len(w), f \in {FlagLong, FlagShort}, v \in FlagValues }
                    : w \in NameWords }
    \cup { <<Word_apply>> \o w \o <<FlagShort>> : w \in NameWords }
    \cup { <<Word_apply, FlagShort, KeyChars("kitty")>> }

NoRun ==
    [phase |-> "none", platform |-> "none", currentTerminal |-> "none", args |-> <<>>,
     targetTerminal |-> "none", themeName |-> <<>>, theme |-> "none", exit |-> -1]

CliIdle == cli = NoRun

\* module initialisation of the CLI: currentPlatform from process.platform,
\* currentTerminal = detectTerminal()
Startup ==
    /\ cli.phase = "none"
    /\ \E platform \in Platforms, env \in ProcessEnvs :
          cli' = [cli EXCEPT !.phase = "started", !.platform = platform,
                             !.currentTerminal = DetectTerminal(platform, env)]
    /\ UNCHANGED <<parseVars, wtVars, psVars, instVars, raceVars, impVars>>

\* main() for args[0] === 'apply' && args[1]: the target, the theme name, the
\* lookup and applyTheme; process.exit(1) when no theme matches
ApplyCommand ==
    /\ cli.phase = "started"
    /\ \E args \in ArgLists :
       \E targetTerminal \in {TargetTerminal(args, cli.currentTerminal)},
          themeName \in {ThemeNameArg(args)} :
       \E theme \in {FindTheme(GetThemes, themeName)} :
          LET run == [cli EXCEPT !.phase = "done", !.args = args,
                                 !.targetTerminal = targetTerminal,
                                 !.themeName = themeName, !.theme = theme]
          IN  IF theme = "none"
              THEN /\ cli' = [run EXCEPT !.exit = 1]
                   /\ UNCHANGED <<wtVars, psVars, instVars>>
              ELSE /\ cli' = [run EXCEPT !.exit = 0]
                   /\ IF targetTerminal \in {"windows-terminal", "powershell"}
                      THEN ApplyThemeWindows(theme, Store[theme].name, targetTerminal)
                      ELSE /\ \E env \in EnvsOf(UsesOf(theme, targetTerminal)) :
                                Commit("applyTheme", targetTerminal, theme,
                                       Store[theme].name,
                                       ApplyTheme(theme, Store[theme].name, targetTerminal,
                                                  ClockText(instLast.count + 1), env))
                           /\ UNCHANGED <<wtVars, psVars>>
    /\ UNCHANGED <<parseVars, raceVars, impVars>>

(***************************************************************************)
(* Two runs of the CLI at the same time on the Windows targets.  Inside    *)
(* one process applyToWindowsTerminal and applyToPowerShell run to the end *)
(* without yielding; two processes interleave between the readFileSync     *)
(* and the writeFileSync of each.                                          *)
(***************************************************************************)
Procs == {1, 2}

\* the theme each process installs: two different themes
RaceTheme(p) ==
    IF p = 1 THEN Theme(<<"Tokyo Night">>, TokyoNightColors)
    ELSE Theme(<<"Dracula">>, DEFAULT_THEME_COLORS)

\* a process before its install: settings and existingProfile are the local
\* variables of the two functions
NoProc ==
    [pc |-> "start", terminal |-> "none", settings |-> ReadSettings(NoSettingsFile),
     existingProfile |-> <<>>, success |-> FALSE]

RaceIdle == race = [p \in Procs |-> NoProc]

\* applyToWindowsTerminal, lines 685-696: existsSync, readFileSync, JSON.parse
ReadSettingsStep ==
    /\ \E p \in Procs :
          /\ race[p].pc = "start"
          /\ race' = [race EXCEPT ![p] = [@ EXCEPT !.pc = "read",
                                                   !.terminal = "windows-terminal",
                                                   !.settings = ReadSettings(wtFile)]]
    /\ UNCHANGED <<parseVars, wtVars, psVars, instVars, cliVars, impVars>>

\* applyToWindowsTerminal, lines 698-713: the merge into the settings read
\* before, writeFileSync and the result
WriteSettingsStep ==
    /\ \E p \in Procs :
          /\ race[p].pc = "read"
          /\ race[p].terminal = "windows-terminal"
          /\ LET read == race[p].settings
                 t == RaceTheme(p)
             IN  IF read.isNull \/ read.doc.schemes.kind = "other"
                 THEN /\ race' = [race EXCEPT ![p] = [@ EXCEPT !.pc = "done",
                                                               !.success = FALSE]]
                      /\ UNCHANGED wtFile
                 ELSE /\ wtFile' = SettingsFile(TRUE, "json",
                                       JsonStringify(MergeScheme(read.doc, t.colors, t.name)))
                      /\ race' = [race EXCEPT ![p] = [@ EXCEPT !.pc = "done",
                                                               !.success = TRUE]]
    /\ UNCHANGED <<parseVars, wtLast, psVars, instVars, cliVars, impVars>>

\* applyToPowerShell, lines 762-765: existsSync and readFileSync
ReadProfileStep ==
    /\ \E p \in Procs :
          /\ race[p].pc = "start"
          /\ race' = [race EXCEPT ![p] = [@ EXCEPT !.pc = "read",
                                                   !.terminal = "powershell",
                                                   !.existingProfile =
                                                       IF psFile.exists THEN psFile.text
                                                       ELSE <<>>]]
    /\ UNCHANGED <<parseVars, wtVars, psVars, instVars, cliVars, impVars>>

\* applyToPowerShell, lines 768-778: the new text from the text read before,
\* writeFileSync and the result
WriteProfileStep ==
    /\ \E p \in Procs :
          /\ race[p].pc = "read"
          /\ race[p].terminal = "powershell"
          /\ psFile' = ProfileFile(TRUE, NewProfile(race[p].existingProfile,
                                                    RaceTheme(p).colors, RaceTheme(p).name))
          /\ race' = [race EXCEPT ![p] = [@ EXCEPT !.pc = "done", !.success = TRUE]]
    /\ UNCHANGED <<parseVars, wtVars, psLast, instVars, cliVars, impVars>>

AllDirs == {ItermDir, GnomeFallbackDir, "~/.warp/themes", "~/.config/alacritty/themes",
            "~/.config/kitty/themes", "~/.local/share/konsole"}

InstIdle ==
    /\ disk = {}
    /\ dirs = {}
    /\ os = NoOs
    /\ instLast = NoCall

\* nothing installed yet; the target directories all exist or none does
InstInit ==
    /\ disk = {}
    /\ dirs \in {{}, AllDirs}
    /\ os = NoOs
    /\ instLast = NoCall

(***************************************************************************)
(* File import: main/ipc/files (FILES_IMPORT, FILES_DRAG_IMPORT) over the  *)
(* themes table of main/db/connection.  A name and a slug are sequences of *)
(* one-character strings; the author NULL is the string "NULL".            *)
(***************************************************************************)
MaxImports == 3

\* `${counter}`
DecimalText(n) ==
    LET d == <<"0", "1", "2", "3", "4", "5", "6", "7", "8", "9">>
    IN  IF n < 10 THEN <<d[n + 1]>> ELSE <<d[(n \div 10) + 1], d[(n % 10) + 1]>>

\* .replace(/^-|-$/g, '')
StripDashes(s) ==
    LET a == IF s # <<>> /\ s[1] = "-" THEN Tail(s) ELSE s
    IN  IF a # <<>> /\ a[Len(a)] = "-" THEN SubSeq(a, 1, Len(a) - 1) ELSE a

\* baseName.toLowerCase().replace(/[^a-z0-9]+/g, '-').replace(/^-|-$/g, '')
BaseSlug(baseName) == StripDashes(SlugName(baseName, "-"))

\* SELECT COUNT(*) FROM themes WHERE slug = ?
CheckSlug(rows, slug) == Cardinality({r \in rows : r.slug = slug})

\* SELECT COUNT(*) FROM themes WHERE name = ? AND author = ?; a NULL author
\* equals nothing
CheckName(rows, name, author) ==
    Cardinality({r \in rows : r.name = name /\ r.author # "NULL" /\ r.author = author})

\* generateUniqueSlug without the loop: one suffix is tried
GenerateUniqueSlugOnce(rows, baseName) ==
    IF CheckSlug(rows, BaseSlug(baseName)) > 0
    THEN [value |-> BaseSlug(baseName) \o <<"-", "1">>, counter |-> 2]
    ELSE [value |-> BaseSlug(baseName), counter |-> 1]

\* the while loop of generateUniqueSlug
RECURSIVE SlugLoop(_, _, _, _)
SlugLoop(rows, baseSlug, slug, counter) ==
    IF CheckSlug(rows, slug) > 0
    THEN SlugLoop(rows, baseSlug, baseSlug \o <<"-">> \o DecimalText(counter), counter + 1)
    ELSE [value |-> slug, counter |-> counter]

\* generateUniqueSlug(db, baseName): the slug and the counter at the return
GenerateUniqueSlug(rows, baseName) ==
    SlugLoop(rows, BaseSlug(baseName), BaseSlug(baseName), 1)

\* the while loop of generateUniqueName
RECURSIVE NameLoop(_, _, _, _, _)
NameLoop(rows, baseName, author, name, counter) ==
    IF CheckName(rows, name, author) > 0
    THEN NameLoop(rows, baseName, author,
                  baseName \o <<" ", "(">> \o DecimalText(counter) \o <<")">>, counter + 1)
    ELSE [value |-> name, counter |-> counter]

\* generateUniqueName(db, baseName, author)
GenerateUniqueName(rows, baseName, author) == NameLoop(rows, baseName, author, baseName, 1)

\* a row of themes with its rows of theme_colors
ThemeRow(id, name, slug, author, colors) ==
    [id |-> id, name |-> name, slug |-> slug, author |-> author, colors |-> colors]

\* id TEXT PRIMARY KEY, slug TEXT UNIQUE NOT NULL, UNIQUE(name, author): the
\* INSERT of row is refused.  NULL authors are distinct from one another.
ConstraintFails(rows, row) ==
    \/ \E r \in rows : r.id = row.id
    \/ \E r \in rows : r.slug = row.slug
    \/ \E r \in rows : r.name = row.name /\ r.author # "NULL" /\ r.author = row.author

Name_Nord1 == Name_Nord \o <<" ", "(", "1", ")">>
Name_nord == NameToLowerCase(Name_Nord)
Name_Bang == <<"!", "!">>

\* what parseThemeFile(targetPath) gives: a thrown Error or { name, colors }
ImportParses ==
    { [ok |-> FALSE, name |-> <<>>, colors |-> NoColors] }
    \cup { [ok |-> TRUE, name |-> n, colors |-> TokyoNightColors]
           : n \in {Name_Nord, Name_nord, Name_Nord1, Name_Bang} }

\* tables that satisfy the constraints of the themes table
InitStores ==
    { {},
      { ThemeRow(1, Name_Nord, BaseSlug(Name_Nord), "NULL", DEFAULT_THEME_COLORS) },
      { ThemeRow(1, Name_Nord, BaseSlug(Name_Nord), "Imported", DEFAULT_THEME_COLORS),
        ThemeRow(2, Name_Nord1, BaseSlug(Name_Nord1), "Imported", DEFAULT_THEME_COLORS) },
      { ThemeRow(1, Name_TokyoNight, BaseSlug(Name_Nord1), "NULL", DEFAULT_THEME_COLORS),
        ThemeRow(2, Name_Nord, BaseSlug(Name_TokyoNight), "Imported", DEFAULT_THEME_COLORS) } }

NoImport ==
    [count |-> 0, channel |-> "none", outcome |-> "none", before |-> {},
     slug |-> <<>>, name |-> <<>>, slugCounter |-> 0, nameCounter |-> 0]

ImpIdle ==
    /\ dbThemes = {}
    /\ impLast = NoImport

ImpInit ==
    /\ dbThemes \in InitStores
    /\ impLast = NoImport

\* an import call that ended without an INSERT
ImportEnds(channel, outcome) ==
    /\ impLast' = [NoImport EXCEPT !.count = impLast.count + 1, !.channel = channel,
                                   !.outcome = outcome, !.before = dbThemes]
    /\ UNCHANGED dbThemes

\* from parseThemeFile to the return of the created theme; uuidv4() gives an
\* id that no row has
ImportTheme(channel, parsed) ==
    IF ~parsed.ok THEN ImportEnds(channel, "error")
    ELSE \E slug \in {GenerateUniqueSlug(dbThemes, parsed.name)},
            uniqueName \in {GenerateUniqueName(dbThemes, parsed.name, "Imported")} :
         \E row \in {ThemeRow(100 + impLast.count, uniqueName.value, slug.value,
                              "Imported", parsed.colors)} :
            IF ConstraintFails(dbThemes, row) THEN ImportEnds(channel, "constraint")
            ELSE /\ dbThemes' = dbThemes \cup {row}
                 /\ impLast' = [count |-> impLast.count + 1, channel |-> channel,
                                outcome |-> "ok", before |-> dbThemes,
                                slug |-> slug.value, name |-> uniqueName.value,
                                slugCounter |-> slug.counter,
                                nameCounter |-> uniqueName.counter]

\* ipcMain.handle(IPC_CHANNELS.FILES_IMPORT): with no path the dialog is
\* shown, and a cancelled dialog returns null
FilesImport ==
    /\ impLast.count < MaxImports
    /\ \E hasPath \in BOOLEAN, canceled \in BOOLEAN, parsed \in ImportParses :
          IF ~hasPath /\ canceled THEN ImportEnds("FILES_IMPORT", "null")
          ELSE ImportTheme("FILES_IMPORT", parsed)
    /\ UNCHANGED <<parseVars, wtVars, psVars, instVars, cliVars, raceVars>>

\* ipcMain.handle(IPC_CHANNELS.FILES_DRAG_IMPORT)
FilesDragImport ==
    /\ impLast.count < MaxImports
    /\ \E parsed \in ImportParses : ImportTheme("FILES_DRAG_IMPORT", parsed)
    /\ UNCHANGED <<parseVars, wtVars, psVars, instVars, cliVars, raceVars>>

(***************************************************************************)
(* Specifications                                                          *)
(***************************************************************************)
\* one call of parseThemeFile on any of the input files
ParseNext == ParseThemeFile

InitParse == ParseInit /\ WTIdle /\ PSIdle /\ InstIdle /\ CliIdle /\ RaceIdle /\ ImpIdle

SpecParse == InitParse /\ [][ParseNext]_vars

\* any sequence of at most MaxInstalls applyToWindowsTerminal calls
WTApply ==
    /\ wtLast.count < MaxInstalls
    /\ \E t \in WTThemes : ApplyToWindowsTerminal(t.colors, t.name)
    /\ UNCHANGED <<parseVars, psVars, instVars, cliVars, raceVars, impVars>>

InitWT == ParseIdle /\ WTInit /\ PSIdle /\ InstIdle /\ CliIdle /\ RaceIdle /\ ImpIdle

SpecWT == InitWT /\ [][WTApply]_vars

\* any sequence of at most MaxApplies applyToPowerShell calls
PSApply ==
    /\ psLast.count < MaxApplies
    /\ \E t \in PSThemes : ApplyToPowerShell(t.colors, t.name)
    /\ UNCHANGED <<parseVars, wtVars, instVars, cliVars, raceVars, impVars>>

InitPS == ParseIdle /\ WTIdle /\ PSInit /\ InstIdle /\ CliIdle /\ RaceIdle /\ ImpIdle

SpecPS == InitPS /\ [][PSApply]_vars

\* at most MaxCalls installer calls, of the main process or of the CLI
InstNext ==
    \/ InstallIterm2Call
    \/ InstallTerminalAppCall
    \/ SetTerminalDefaultCall
    \/ ApplyThemeCall
    \/ ApplyThemeWindowsCall

InitInstall == ParseIdle /\ WTIdle /\ PSIdle /\ InstInit /\ CliIdle /\ RaceIdle /\ ImpIdle

SpecInstall == InitInstall /\ [][InstNext]_vars

\* at most MaxCalls calls of the installers that write a theme file
FilesNext == InstallIterm2Call \/ ApplyThemeCall

InitFiles == ParseIdle /\ WTIdle /\ PSIdle /\ InstInit /\ CliIdle /\ RaceIdle /\ ImpIdle

SpecFiles == InitFiles /\ [][FilesNext]_vars

\* one run of `shellshade apply ...` from start-up to exit
CliNext == Startup \/ ApplyCommand

InitCli == ParseIdle /\ WTIdle /\ PSIdle /\ InstInit /\ CliIdle /\ RaceIdle /\ ImpIdle

SpecCli == InitCli /\ [][CliNext]_vars

\* two installs on the Windows targets, their reads and writes in any order
RaceNext == ReadSettingsStep \/ WriteSettingsStep \/ ReadProfileStep \/ WriteProfileStep

InitRace == ParseIdle /\ WTInit /\ PSInit /\ InstIdle /\ CliIdle /\ RaceIdle /\ ImpIdle

SpecRace == InitRace /\ [][RaceNext]_vars

\* any sequence of at most MaxImports imports, by the dialog, by a path or
\* by drag and drop
ImpNext == FilesImport \/ FilesDragImport

InitImport == ParseIdle /\ WTIdle /\ PSIdle /\ InstIdle /\ CliIdle /\ RaceIdle /\ ImpInit

SpecImport == InitImport /\ [][ImpNext]_vars

(***************************************************************************)
(* Properties                                                              *)
(***************************************************************************)
\* '#' followed by exactly six hex digits
IsValidHexColor(v) ==
    /\ Len(v) = 7
    /\ v[1] = "#"
    /\ \A i \in 2..7 : v[i] \in HexLower \cup HexUpper

\* '#' followed by exactly six lowercase hex digits
IsLowerHexColor(v) ==
    /\ Len(v) = 7
    /\ v[1] = "#"
    /\ \A i \in 2..7 : v[i] \in HexLower

\* the 22 required colour slots of a colors object
SlotValues(colors) ==
    {colors.background, colors.foreground, colors.cursor, colors.cursorText,
     colors.selection, colors.selectionText}
    \cup {colors.ansi[s] : s \in AnsiSlots}

\* the number of ShellShade blocks in a profile: each block holds the line
\* "# Generated by ShellShade - Terminal Theme Manager" once
InjectedBlocks(text) ==
    Cardinality({i \in DOMAIN text :
                   text[i] = HASH("Generated by ShellShade - Terminal Theme Manager")})

\* C1: applyToPowerShell is idempotent: after any sequence of applications,
\* applying the last theme once more leaves the profile file as it is, and
\* the profile holds exactly one ShellShade block, that of the last theme.
C1_Idempotent ==
    psLast.count > 0 =>
        /\ NewProfile(psFile.text, psLast.colors, psLast.name) = psFile.text
        /\ InjectedBlocks(psFile.text) = 1

\* C2: after any sequence of applyToWindowsTerminal installs the schemes
\* array of the written document holds exactly one entry whose name is the
\* name installed last.
C2_OneSchemePerName ==
    (wtLast.count > 0 /\ wtLast.success) =>
        /\ wtFile.exists
        /\ wtFile.kind = "json"
        /\ wtFile.doc.schemes.kind = "array"
        /\ Cardinality({i \in DOMAIN wtFile.doc.schemes.items :
                          wtFile.doc.schemes.items[i].name = wtLast.name}) = 1

\* a second install of a name the document already held (here twice)
C2_Witness ==
    /\ wtLast.count >= 2
    /\ wtLast.success
    /\ wtLast.removed = 2
    /\ Len(wtFile.doc.schemes.items) >= 2

\* the colour came from getColor on a property list or on Profiles[0]
FromColorDicts ==
    /\ parseOut.status = "ok"
    /\ \/ invoked = {"parseItermColors"}
       \/ /\ invoked = {"parseJson"}
          /\ ~(fileContent.json.colors.present /\ fileContent.json.colors.ansiPresent)

\* the dictionary of colour entries that was decoded
SourceDicts ==
    IF invoked = {"parseItermColors"} THEN fileContent.plist
    ELSE fileContent.json.profiles[1].dict

\* C3: the property-list parser and the profile-array branch of parseJson
\* clamp each component to a byte, so that every returned colour is '#'
\* followed by exactly six lowercase hex digits.
C3_ComponentsClamped ==
    FromColorDicts => \A v \in SlotValues(parseOut.colors) : IsLowerHexColor(v)

\* C4: without a 'Cursor Text Color' entry cursorText is the returned
\* background, and without a 'Selected Text Color' entry selectionText is the
\* returned foreground, whatever those colours are.
C4_TextColorDefaults ==
    FromColorDicts =>
        /\ "Cursor Text Color" \notin DOMAIN SourceDicts =>
               parseOut.colors.cursorText = parseOut.colors.background
        /\ "Selected Text Color" \notin DOMAIN SourceDicts =>
               parseOut.colors.selectionText = parseOut.colors.foreground

\* C5: every theme parseJson returns for a canonical-shape document (an
\* object with colors.ansi) has its 22 colour slots set to valid '#rrggbb'
\* strings.
C5_CanonicalValidated ==
    ( /\ parseOut.status = "ok"
      /\ invoked = {"parseJson"}
      /\ fileContent.json.colors.present
      /\ fileContent.json.colors.ansiPresent )
    => \A v \in SlotValues(parseOut.colors) : IsValidHexColor(v)

\* C6: for every readable file parseKitty and parseAlacritty return a theme
\* whose 22 colour slots are all set to valid lowercase '#rrggbb' values.
C6_DefaultFillTotal ==
    (fileExists /\ invoked \in {{"parseKitty"}, {"parseAlacritty"}}) =>
        /\ parseOut.status = "ok"
        /\ \A v \in SlotValues(parseOut.colors) : IsLowerHexColor(v)

\* a block-style file that sets only the background
C6_Witness ==
    /\ invoked = {"parseAlacritty"}
    /\ parseOut.status = "ok"
    /\ fileContent.kind = "lines"
    /\ fileContent.lines =
         << Line("colors", ":", "", <<>>), Line("primary", ":", "", <<>>),
            Line("background", ": ", "'", Hex("A", "A", "B", "B", "C", "C")) >>
    /\ parseOut.colors.background = Hex("a", "a", "b", "b", "c", "c")

\* a line "<token> <hexcolor>": the token, white space, '#' and six hex digits
SetsKittyKey(l, k) ==
    /\ l.key = k
    /\ l.sep = " "
    /\ l.quote = ""
    /\ Len(l.val) >= 7
    /\ l.val[1] = "#"
    /\ \A i \in 2..7 : l.val[i] \in HexLower \cup HexUpper

KittyColorKey(n) ==
    CASE n = 0 -> "color0" [] n = 1 -> "color1" [] n = 2 -> "color2" [] n = 3 -> "color3"
      [] n = 4 -> "color4" [] n = 5 -> "color5" [] n = 6 -> "color6" [] n = 7 -> "color7"
      [] n = 8 -> "color8" [] n = 9 -> "color9" [] n = 10 -> "color10" [] n = 11 -> "color11"
      [] n = 12 -> "color12" [] n = 13 -> "color13" [] n = 14 -> "color14"
      [] n = 15 -> "color15"

\* the built-in palette of the line-oriented parser, by ANSI index
KittyBuiltin(n) ==
    CASE n = 0 -> Hex("1", "d", "1", "f", "2", "1") [] n = 1 -> Hex("c", "c", "6", "6", "6", "6")
      [] n = 2 -> Hex("b", "5", "b", "d", "6", "8") [] n = 3 -> Hex("f", "0", "c", "6", "7", "4")
      [] n = 4 -> Hex("8", "1", "a", "2", "b", "e") [] n = 5 -> Hex("b", "2", "9", "4", "b", "b")
      [] n = 6 -> Hex("8", "a", "b", "e", "b", "7") [] n = 7 -> Hex("c", "5", "c", "8", "c", "6")
      [] n = 8 -> Hex("9", "6", "9", "8", "9", "6") [] n = 9 -> Hex("d", "e", "9", "3", "5", "f")
      [] n = 10 -> Hex("b", "5", "b", "d", "6", "8") [] n = 11 -> Hex("f", "0", "c", "6", "7", "4")
      [] n = 12 -> Hex("8", "1", "a", "2", "b", "e") [] n = 13 -> Hex("b", "2", "9", "4", "b", "b")
      [] n = 14 -> Hex("8", "a", "b", "e", "b", "7") [] n = 15 -> Hex("f", "f", "f", "f", "f", "f")

\* C7: in parseKitty a missing cursor is the resulting foreground, a missing
\* cursor_text_color the resulting background, a missing selection_foreground
\* the resulting foreground, a missing selection_background one fixed gray; a
\* present colorN line sets ANSI slot N (the last such line wins) and every
\* absent colorN is its built-in palette value; a file with only background
\* #1a1b26 and color1 #f7768e gives the built-in foreground, red #f7768e and
\* the built-in black.
C7_KittyDefaults ==
    (fileExists /\ invoked = {"parseKitty"} /\ fileContent.kind = "lines") =>
        LET lines == fileContent.lines
            Present(k) == \E i \in DOMAIN lines : SetsKittyKey(lines[i], k)
            LastOf(k) == CHOOSE i \in DOMAIN lines :
                             /\ SetsKittyKey(lines[i], k)
                             /\ \A j \in DOMAIN lines : SetsKittyKey(lines[j], k) => j <= i
            out == parseOut.colors
        IN  /\ ~Present("cursor") => out.cursor = out.foreground
            /\ ~Present("cursor_text_color") => out.cursorText = out.background
            /\ ~Present("selection_foreground") => out.selectionText = out.foreground
            /\ ~Present("selection_background") =>
                   out.selection = Hex("3", "7", "3", "b", "4", "1")
            /\ \A n \in 0..15 :
                   out.ansi[AnsiNames[n + 1]] =
                       IF Present(KittyColorKey(n))
                       THEN [i \in 1..7 |->
                               ToLowerChar(lines[LastOf(KittyColorKey(n))].val[i])]
                       ELSE KittyBuiltin(n)
            /\ lines = << Line("background", " ", "", Hex("1", "a", "1", "b", "2", "6")),
                          Line("color1", " ", "", Hex("f", "7", "7", "6", "8", "e")) >>
               => /\ out.background = Hex("1", "a", "1", "b", "2", "6")
                  /\ out.foreground = Hex("c", "5", "c", "8", "c", "6")
                  /\ out.ansi.red = Hex("f", "7", "7", "6", "8", "e")
                  /\ out.ansi.black = Hex("1", "d", "1", "f", "2", "1")

\* the file with only `background` and `color1` has been parsed
C7_Witness ==
    /\ invoked = {"parseKitty"}
    /\ parseOut.status = "ok"
    /\ fileContent.kind = "lines"
    /\ fileContent.lines =
         << Line("background", " ", "", Hex("1", "a", "1", "b", "2", "6")),
            Line("color1", " ", "", Hex("f", "7", "7", "6", "8", "e")) >>
    /\ parseOut.colors.cursorText = Hex("1", "a", "1", "b", "2", "6")

\* the extension of a path as a lower-case word, "" when the last segment has
\* no dot after its first token
ExtensionOf(p) ==
    IF Len(p) >= 3 /\ p[Len(p) - 1] = "." /\ p[Len(p) - 2] \notin {"/", "."}
    THEN CASE p[Len(p)] \in {"terminal", "Terminal", "TERMINAL"} -> "terminal"
           [] p[Len(p)] \in {"itermcolors", "ItermColors"} -> "itermcolors"
           [] p[Len(p)] \in {"json", "JSON"} -> "json"
           [] p[Len(p)] \in {"conf", "Conf"} -> "conf"
           [] p[Len(p)] \in {"yml", "YML"} -> "yml"
           [] OTHER -> p[Len(p)]
    ELSE ""

\* C8: parsing a path whose extension is .terminal in any letter case always
\* fails with the unsupported-format error that names another import path,
\* whatever the file holds and whether or not it exists; the file is never
\* read and no other parser is called.
C8_TerminalUnsupported ==
    (parseOut.status # "none" /\ ExtensionOf(filePath) = "terminal") =>
        /\ parseOut.status = "error"
        /\ parseOut.error = "UnsupportedFormat"
        /\ parseOut.suggests
        /\ ~bytesRead
        /\ invoked = {"parseTerminalApp"}

\* an upper-case .TERMINAL path whose file holds a valid native JSON theme
C8_Witness ==
    /\ parseOut.status = "error"
    /\ filePath = <<"theme", ".", "TERMINAL">>
    /\ fileExists
    /\ fileContent = JsonContent(SerializeCanonicalJson(
                         Theme(<<"Tokyo Night">>, TokyoNightColors)))

\* the parser an extension is routed to
ParserFor(ext) ==
    CASE ext = "itermcolors" -> {"parseItermColors"}
      [] ext = "terminal" -> {"parseTerminalApp"}
      [] ext \in {"yaml", "yml"} -> {"parseAlacritty"}
      [] ext = "json" -> {"parseJson"}
      [] ext = "conf" -> {"parseKitty"}
      [] OTHER -> {}

\* C9: parseThemeFile picks the parser from the extension alone, compared
\* without regard to case: each known extension calls exactly its parser,
\* every other extension (or none) fails with the unsupported-extension error
\* and calls no parser, and a parser's failure reaches the caller as a
\* failure.
C9_RoutedByExtension ==
    parseOut.status # "none" =>
        /\ invoked = ParserFor(ExtensionOf(filePath))
        /\ invoked = {} =>
               parseOut.status = "error" /\ parseOut.error = "UnsupportedExtension"
        /\ invoked # {} => parseOut.error # "UnsupportedExtension"
        /\ (invoked \notin {{}, {"parseTerminalApp"}} /\ ~fileExists) =>
               parseOut.status = "error"
        /\ (invoked = {"parseJson"} /\ fileContent.kind # "json") =>
               parseOut.status = "error"
        /\ (invoked = {"parseItermColors"} /\ fileContent.kind # "plist") =>
               parseOut.status = "error"

\* a path with two dots and an upper-case last extension is parsed as JSON
C9_Witness ==
    /\ filePath = <<"theme", ".", "conf", ".", "JSON">>
    /\ invoked = {"parseJson"}
    /\ parseOut.status = "ok"

\* the file holds the native JSON shape of theme t and parseJson has run
RoundTripOf(t) ==
    /\ parseOut.status # "none"
    /\ invoked = {"parseJson"}
    /\ fileExists
    /\ fileContent = JsonContent(SerializeCanonicalJson(t))

\* C10 as stated: for any theme with 22 valid colours, parsing its native
\* JSON shape returns the theme's name and colours.
C10_RoundTrip ==
    \A t \in ValidThemes :
        RoundTripOf(t) =>
            /\ parseOut.status = "ok"
            /\ parseOut.name = t.name
            /\ parseOut.colors = t.colors

\* C10 amended: for any theme with a non-empty name and 22 valid colours,
\* parsing its native JSON shape returns the theme's name and colours; the
\* colours are returned for an empty name too.
C10_RoundTripNamed ==
    \A t \in ValidThemes :
        RoundTripOf(t) =>
            /\ parseOut.status = "ok"
            /\ parseOut.colors = t.colors
            /\ t.name # <<>> => parseOut.name = t.name

\* a named theme with an upper-case colour has gone through the round trip
C10_Witness ==
    /\ RoundTripOf(Theme(<<"Tokyo Night">>,
                         [TokyoNightColors EXCEPT !.cursor = Hex("C", "0", "C", "A", "F", "5")]))
    /\ parseOut.name = <<"Tokyo Night">>
    /\ filePath = <<"theme", ".", "json">>

C19_DefaultIsInstalled ==
    (wtLast.count > 0 /\ wtLast.success) =>
        /\ wtFile.doc.profiles.present
        /\ wtFile.doc.profiles.defaultsPresent
        /\ wtFile.doc.profiles.colorScheme = wtLast.name
        /\ \E i \in DOMAIN wtFile.doc.schemes.items :
              LET sc == wtFile.doc.schemes.items[i]
              IN  /\ sc.name = wtLast.name
                  /\ sc.purple = wtLast.colors.ansi.magenta
                  /\ sc.brightPurple = wtLast.colors.ansi.brightMagenta
                  /\ {"magenta", "brightMagenta"} \cap DOMAIN sc = {}

(***************************************************************************)
(* Installers: destination paths                                           *)
(***************************************************************************)
\* the theme has colour rows, so the installer gets past the lookup
HasColours(id) == id \in DOMAIN Store /\ Store[id].rows # NoRows

\* the installer call that ended last
LastCall(op, terminal) ==
    instLast.count > 0 /\ instLast.op = op /\ instLast.terminal = terminal

\* the files an installer leaves as its artifact (the script that
\* applyToGnomeTerminal runs from os.tmpdir() is not one of them)
ThemeFiles(d) == {f \in d : f.path.dir # "os.tmpdir()"}

\* the characters of a file name that come from the slug: the prefix and the
\* extension are the only tokens of more than one character
IsNameChar(c) ==
    \/ IsSlugChar(c)
    \/ \E i \in DOMAIN UpperCase : UpperCase[i] = c
    \/ c \in {"-", "_", " "}

SlugOf(f) == SelectSeq(f.path.file, IsNameChar)
PrefixOf(f) == IF IsNameChar(Head(f.path.file)) THEN "" ELSE Head(f.path.file)
ExtOf(f) == f.path.file[Len(f.path.file)]
SeparatorOf(f) == IF f.path.dir \in {ItermDir, GnomeFallbackDir} THEN "-" ELSE "_"

\* C11: the destination path of a file-based installer depends on the theme
\* name only: two artifacts of one installer for the same name are the same
\* file, the file name is the name lower-cased with every run of characters
\* outside a-z0-9 collapsed to one separator, and "Tokyo Night" installed for
\* Alacritty is tokyo_night.toml.
C11_PathFromName ==
    /\ \A f \in ThemeFiles(disk), g \in ThemeFiles(disk) :
          (/\ f.path.dir = g.path.dir
           /\ PrefixOf(f) = PrefixOf(g)
           /\ ExtOf(f) = ExtOf(g)
           /\ f.content.name = g.content.name) => f.path = g.path
    /\ \A f \in ThemeFiles(disk) :
          LET slug == SlugOf(f)
              sep == SeparatorOf(f)
          IN  /\ \A i \in DOMAIN slug : IsSlugChar(slug[i]) \/ slug[i] = sep
              /\ \A i \in 1..(Len(slug) - 1) : ~(slug[i] = sep /\ slug[i + 1] = sep)
              /\ SelectSeq(slug, IsSlugChar)
                   = SelectSeq(NameToLowerCase(f.content.name), IsSlugChar)
    /\ \A f \in disk :
          (f.content.format = "alacritty" /\ f.content.name = Name_TokyoNight) =>
              f.path = [dir |-> "~/.config/alacritty/themes",
                        file |-> <<"t", "o", "k", "y", "o", "_",
                                   "n", "i", "g", "h", "t", ".toml">>]

\* "Tokyo Night" installed for Alacritty a second time, over its own file
C11_Witness ==
    /\ instLast.count = 2
    /\ LastCall("applyTheme", "alacritty")
    /\ instLast.themeId = "t1"
    /\ "write" \in instLast.done
    /\ \E f \in instLast.before.disk :
          f.content.format = "alacritty" /\ f.content.name = Name_TokyoNight
    /\ Cardinality({f \in disk : f.content.format = "alacritty"}) = 1

\* C12: an install never replaces the artifact of another theme: every file
\* that was an artifact before the call is, after it, still the artifact of
\* the same theme.
C12_DistinctPaths ==
    \A f \in ThemeFiles(instLast.before.disk) :
        \E g \in disk : g.path = f.path /\ g.content.name = f.content.name

(***************************************************************************)
(* Installers: results                                                     *)
(***************************************************************************)
\* a call of the iTerm2 installer: installToIterm2, or applyToIterm2 behind
\* applyTheme (which is reached when the theme has colours)
ItermCall ==
    \/ LastCall("installToIterm2", "none")
    \/ LastCall("applyTheme", "iterm2") /\ HasColours(instLast.themeId)

\* the profile the last iTerm2 call was to write
ItermProfileWritten ==
    \E f \in disk :
        /\ f.path.dir = ItermDir
        /\ f.content.name = instLast.themeName
        /\ f.content.guid = <<instLast.themeId>>
        /\ (instLast.op = "installToIterm2" => f.path = instLast.result.path)

\* the text of the result (instructions or message) is the one returned
\* when the sessions were switched
ItermSaysApplied ==
    IF instLast.op = "installToIterm2"
    THEN instLast.result.instructions
           = Template("Theme ", instLast.themeName, " applied to iTerm2!")
    ELSE instLast.result.message = <<"Theme applied to all sessions!">>

\* once the profile is written the call succeeds and the file stays, whether
\* or not the AppleScript ran; only the text differs
ItermWriteIsDurable ==
    /\ ("write" \in instLast.done) =>
          /\ instLast.outcome = "returned"
          /\ instLast.result.success
          /\ instLast.result.error = Absent
          /\ ItermProfileWritten
    /\ ("script" \in instLast.failed) => ("write" \in instLast.done /\ ~ItermSaysApplied)
    /\ ("script" \in instLast.done) => ("write" \in instLast.done /\ ItermSaysApplied)

\* C13: in the iTerm2 installer, once the profile file is written the result
\* is success:true with the profile path whether or not the live apply
\* succeeds, a live-apply failure changes only the instructions and the file
\* stays in place; success:false is returned only when the write failed.
C13_ItermResult ==
    ItermCall =>
        /\ ItermWriteIsDurable
        /\ (instLast.outcome = "returned" /\ ~instLast.result.success) =>
              "write" \in instLast.failed

\* C13 as the code has it: success:false is returned when the write failed
\* and also, by installToIterm2, when the theme has no colours.
C13_ItermResultOrNotFound ==
    ItermCall =>
        /\ ItermWriteIsDurable
        /\ (instLast.outcome = "returned" /\ ~instLast.result.success) =>
              \/ "write" \in instLast.failed
              \/ /\ ~HasColours(instLast.themeId)
                 /\ instLast.result.error = <<"Theme not found">>
                 /\ instLast.result.path = NoPath

\* installToIterm2 wrote the profile and the AppleScript then failed
C13_Witness ==
    /\ LastCall("installToIterm2", "none")
    /\ "write" \in instLast.done
    /\ "script" \in instLast.failed
    /\ instLast.result.success
    /\ ItermProfileWritten

\* C14: every call of installToIterm2, installToTerminalApp and
\* setTerminalDefault returns a result, and the result is success:true
\* without an error or success:false with a non-empty error.
C14_TwoOutcomes ==
    (instLast.count > 0
       /\ instLast.op \in {"installToIterm2", "installToTerminalApp", "setTerminalDefault"}) =>
        /\ instLast.outcome = "returned"
        /\ instLast.result.success => instLast.result.error = Absent
        /\ ~instLast.result.success =>
              /\ Truthy(instLast.result.error)
              /\ instLast.result.instructions = Absent

\* the instructions installToTerminalApp returns when the open windows were
\* switched to the profile
TerminalSaysApplied ==
    instLast.result.instructions
      = Template("Theme ", instLast.themeName, " applied! Profile saved")

\* whenever the profile was created and made the default the call succeeds,
\* the profile is the default, and the instructions tell whether the open
\* windows were changed
TerminalCreateIsEnough ==
    /\ ("create" \in instLast.done) =>
          /\ instLast.outcome = "returned"
          /\ instLast.result.success
          /\ instLast.result.error = Absent
          /\ os.termDefault = instLast.themeName
          /\ instLast.themeName \in os.termProfiles
    /\ ("apply" \in instLast.failed) =>
          /\ "create" \in instLast.done
          /\ Truthy(instLast.result.instructions)
          /\ ~TerminalSaysApplied
    /\ ("apply" \in instLast.done) => TerminalSaysApplied

\* applyToTerminalApp of the CLI runs one script, in which the change of each
\* window is in a try block: when the script ran the call succeeds
CliTerminalCreateIsEnough ==
    (LastCall("applyTheme", "terminal") /\ "create" \in instLast.done) =>
        /\ instLast.outcome = "returned"
        /\ instLast.result.success
        /\ os.termDefault = instLast.themeName

GnomeFallbackSaved ==
    \E f \in disk :
        /\ f.path = PathJoin(GnomeFallbackDir, <<"gnome-">>,
                             SlugName(instLast.themeName, "-"), <<".sh">>)
        /\ f.content.format = "gnome-script"
        /\ f.content.name = instLast.themeName

\* C16: whenever running the generated script fails, applyToGnomeTerminal
\* saves the same script at ~/.config/shellshade/gnome-<slug>.sh and returns
\* success:true with the instruction to run it; the failure never gives
\* success:false and never leaves as an exception.
C16_GnomeFallback ==
    (LastCall("applyTheme", "gnome-terminal") /\ "script" \in instLast.failed) =>
        /\ instLast.outcome = "returned"
        /\ instLast.result.success
        /\ GnomeFallbackSaved

\* C17: a failing mkdir, read or write of an installer is returned to the
\* caller as a failed result with an error text; it never leaves the
\* installer as an exception.
C17_FsFailureReturned ==
    (instLast.count > 0 /\ instLast.failed \cap {"mkdir", "write", "fallback"} # {}) =>
        /\ instLast.outcome = "returned"
        /\ ~instLast.result.success
        /\ Truthy(instLast.result.error) \/ Truthy(instLast.result.message)

\* C20: installing a theme id that has no colour rows returns a failed
\* result saying 'Theme not found' and changes nothing: no directory, no
\* file, no script run, no settings written, whatever the target.
C20_NotFoundNoEffect ==
    (instLast.count > 0 /\ ~HasColours(instLast.themeId)) =>
        /\ instLast.outcome = "returned"
        /\ ~instLast.result.success
        /\ IF instLast.op = "applyTheme"
           THEN instLast.result.message = <<"Theme not found">>
           ELSE instLast.result.error = <<"Theme not found">>
        /\ disk = instLast.before.disk
        /\ dirs = instLast.before.dirs
        /\ os = instLast.before.os
        /\ wtFile = instLast.before.wtFile
        /\ psFile = instLast.before.psFile

\* a theme without colour rows installed after another install left files
C20_Witness ==
    /\ instLast.count = 2
    /\ instLast.themeId = "t3"
    /\ instLast.op = "applyTheme"
    /\ instLast.terminal = "kitty"
    /\ instLast.before.disk # {}
    /\ instLast.before.dirs = {}
    /\ instLast.result.message = <<"Theme not found">>

(***************************************************************************)
(* The text of the written files                                           *)
(***************************************************************************)
\* the colours of the stored theme of that name, as getFullThemeColors
\* hands them to the installers
ThemeColoursOf(themeName) ==
    GetFullThemeColors(Store[CHOOSE id \in DOMAIN Store : Store[id].name = themeName].rows)

\* a `[table]` line and a `key = value` line of a TOML text
IsTomlTable(l) == l.sep = "" /\ l.quote = "" /\ l.val = <<>> /\ l.key # ""
IsTomlPair(l) == l.sep = " = "

\* the k-th smallest index of S, as the lines of body
LinesAt(body, S) ==
    [k \in 1..Cardinality(S) |->
        body[CHOOSE i \in S : Cardinality({j \in S : j <= i}) = k]]

\* the table headers of a TOML text, in order
TomlTables(body) ==
    LET hs == LinesAt(body, {i \in DOMAIN body : IsTomlTable(body[i])})
    IN  [k \in DOMAIN hs |-> hs[k].key]

\* the table a line belongs to: the closest header above it
TomlTableOf(body, i) ==
    LET above == {j \in 1..i : IsTomlTable(body[j])}
    IN  IF above = {} THEN ""
        ELSE body[CHOOSE j \in above : \A k \in above : k <= j].key

\* the `key = value` lines of one table, in order
TomlPairsOf(body, table) ==
    LinesAt(body, {i \in DOMAIN body :
                     IsTomlPair(body[i]) /\ TomlTableOf(body, i) = table})

AlacrittyAnsiKeys ==
    <<"black", "red", "green", "yellow", "blue", "magenta", "cyan", "white">>

\* the keys of a table are exactly keys, in this order, and the k-th one is
\* bound to values[k]
TomlTableIs(body, table, keys, values) ==
    LET ps == TomlPairsOf(body, table)
    IN  /\ [k \in DOMAIN ps |-> ps[k].key] = keys
        /\ [k \in DOMAIN ps |-> ps[k].val] = values

\* C21: the file written by the Alacritty installer has the five tables
\* [colors.primary], [colors.cursor], [colors.selection], [colors.normal],
\* [colors.bright] holding the 22 colours of the theme; [colors.normal] has
\* exactly the keys black..white bound to ANSI slots 0..7, [colors.bright]
\* the same keys bound to slots 8..15, and every value is a double-quoted
\* '#rrggbb' string equal to the theme's colour.
C21_AlacrittyToml ==
    \A f \in disk :
        f.content.format = "alacritty" =>
            \A body \in {f.content.body}, c \in {ThemeColoursOf(f.content.name)} :
            \A pairs \in {{i \in DOMAIN body : IsTomlPair(body[i])}} :
                /\ TomlTables(body) = <<"[colors.primary]", "[colors.cursor]",
                                        "[colors.selection]", "[colors.normal]",
                                        "[colors.bright]">>
                /\ TomlTableIs(body, "[colors.primary]", <<"background", "foreground">>,
                               <<c.background, c.foreground>>)
                /\ TomlTableIs(body, "[colors.cursor]", <<"text", "cursor">>,
                               <<c.cursorText, c.cursor>>)
                /\ TomlTableIs(body, "[colors.selection]", <<"text", "background">>,
                               <<c.selectionText, c.selection>>)
                /\ TomlTableIs(body, "[colors.normal]", AlacrittyAnsiKeys,
                               [n \in 1..8 |-> c.ansi[AnsiNames[n]]])
                /\ TomlTableIs(body, "[colors.bright]", AlacrittyAnsiKeys,
                               [n \in 1..8 |-> c.ansi[AnsiNames[n + 8]]])
                /\ Cardinality(pairs) = 22
                /\ \A i \in pairs :
                      /\ body[i].quote = "\""
                      /\ IsValidHexColor(body[i].val)
                /\ f.path.file[Len(f.path.file)] = ".toml"

\* applyTheme for Alacritty has written the file of 'Tokyo Night', whose
\* black and bright black differ
C21_Witness ==
    /\ LastCall("applyTheme", "alacritty")
    /\ instLast.themeId = "t1"
    /\ instLast.result.success
    /\ \E f \in disk :
          /\ f.content.format = "alacritty"
          /\ f.content.name = Name_TokyoNight
          /\ Len(f.content.body) > 0
          /\ ThemeColoursOf(f.content.name).ansi.black
               # ThemeColoursOf(f.content.name).ansi.brightBlack

(***************************************************************************)
(* The apply command of the CLI                                            *)
(***************************************************************************)
\* the themes the CLI lists
CliThemeIds == {id \in DOMAIN Store : Store[id].name # Absent}

\* the positions of the flag among the arguments
FlagPositions(args) == {k \in DOMAIN args : IsTerminalFlag(args[k])}

\* C22: in `shellshade apply <name> -t <terminal>` each of the nine terminal
\* identifiers after -t or --terminal makes that terminal the target, whatever
\* terminal was detected; the flag and the argument after it are left out of
\* the theme name wherever they stand among the words of the name; without
\* the flag the target is the detected terminal.
C22_FlagSelectsTarget ==
    cli.phase = "done" =>
        LET args == cli.args
        IN  /\ FlagPositions(args) = {} =>
                  /\ cli.targetTerminal = cli.currentTerminal
                  /\ cli.themeName = JoinSpace(Tail(args))
            /\ \A k \in FlagPositions(args) :
                  (k < Len(args) /\ Len(args) > 3) =>
                      /\ cli.themeName =
                            JoinSpace(SubSeq(args, 2, k - 1) \o SubSeq(args, k + 2, Len(args)))
                      /\ \A t \in Terminals :
                            args[k + 1] = KeyChars(t) => cli.targetTerminal = t

\* `apply tokyo -t iterm2 night` run in a Kitty window
C22_Witness ==
    /\ cli.phase = "done"
    /\ cli.args = <<Word_apply, Word_tokyo, FlagShort, KeyChars("iterm2"), Word_night>>
    /\ cli.currentTerminal = "kitty"
    /\ cli.targetTerminal = "iterm2"
    /\ cli.themeName = <<"t", "o", "k", "y", "o", " ", "n", "i", "g", "h", "t">>
    /\ instLast.terminal = "iterm2"

\* C27: `shellshade apply <name>` applies the theme whose name equals <name>
\* without regard to case whenever the store has one, whatever other themes
\* contain <name>; a theme that only contains <name> is applied when none
\* equals it; when no theme matches, no installer runs.
C27_ExactMatchFirst ==
    cli.phase = "done" =>
        LET wanted == NameToLowerCase(cli.themeName)
            exact == {id \in CliThemeIds : NameToLowerCase(Store[id].name) = wanted}
            partial == {id \in CliThemeIds : Includes(NameToLowerCase(Store[id].name), wanted)}
        IN  /\ exact # {} => cli.theme \in exact
            /\ (exact = {} /\ partial # {}) => cli.theme \in partial
            /\ partial = {} =>
                  /\ cli.theme = "none"
                  /\ instLast = NoCall
                  /\ disk = {}
                  /\ os = NoOs

\* every listed terminal is what detectTerminal returns for some environment
EveryListedTerminalDetected ==
    \A p \in Platforms :
        \A k \in DOMAIN platformTerminals[p] :
            \E env \in ProcessEnvs : DetectTerminal(p, env) = platformTerminals[p][k]

\* C28: whatever the platform and the environment variables, the terminal
\* detectTerminal returns is one of platformTerminals of the platform, and
\* every terminal listed for a platform is returned for some environment
\* (a statement about the function, evaluated before the run starts).
C28_DetectedIsListed ==
    /\ cli.phase # "none" =>
          \E k \in DOMAIN platformTerminals[cli.platform] :
              platformTerminals[cli.platform][k] = cli.currentTerminal
    /\ cli.phase = "none" => EveryListedTerminalDetected

\* PowerShell detected on Windows, Konsole on Linux or Warp on macOS
C28_Witness ==
    /\ cli.phase = "started"
    /\ \/ cli.platform = "windows" /\ cli.currentTerminal = "powershell"
       \/ cli.platform = "linux" /\ cli.currentTerminal = "konsole"
       \/ cli.platform = "macos" /\ cli.currentTerminal = "warp"

(***************************************************************************)
(* Concurrent installs                                                     *)
(***************************************************************************)
\* both processes have finished a successful install to that target
BothInstalled(terminal) ==
    \A p \in Procs :
        race[p].pc = "done" /\ race[p].success /\ race[p].terminal = terminal

\* the profile after the installs of p and then q, one after the other,
\* starting from text
ProfileAfterBoth(text, p, q) ==
    NewProfile(NewProfile(text, RaceTheme(p).colors, RaceTheme(p).name),
               RaceTheme(q).colors, RaceTheme(q).name)

\* C23: two installs of different themes to the Windows Terminal settings
\* (or to the PowerShell profile) whose reads and writes interleave in any
\* order lose nothing: the settings hold the schemes of both themes, and
\* the profile is what the two installs give when run one after the other.
C23_BothInstallsKept ==
    /\ BothInstalled("windows-terminal") =>
          \A p \in Procs :
              \E i \in DOMAIN wtFile.doc.schemes.items :
                  wtFile.doc.schemes.items[i].name = RaceTheme(p).name
    /\ (BothInstalled("powershell")
        /\ race[1].existingProfile = race[2].existingProfile) =>
          psFile.text \in {ProfileAfterBoth(race[1].existingProfile, 1, 2),
                           ProfileAfterBoth(race[1].existingProfile, 2, 1)}

(***************************************************************************)
(* Round trips of the written files                                        *)
(***************************************************************************)
\* the path of a written file as the parsers take it: the directory, the
\* characters of the slug and the extension after its dot
ParserPathOf(f, extension) ==
    <<f.path.dir, "/">> \o SubSeq(f.path.file, 1, Len(f.path.file) - 1)
    \o <<".", extension>>

\* all 22 colours are '#' and six lowercase hex digits
AllLowerHex(colors) == \A v \in SlotValues(colors) : IsLowerHexColor(v)

HexChars == <<"0", "1", "2", "3", "4", "5", "6", "7", "8", "9",
              "a", "b", "c", "d", "e", "f">>

\* a palette whose 22 colours differ from one another
DistinctColors ==
    [background |-> Hex("0", "0", "0", "0", "0", "1"),
     foreground |-> Hex("0", "0", "0", "0", "0", "2"),
     cursor |-> Hex("0", "0", "0", "0", "0", "3"),
     cursorText |-> Hex("0", "0", "0", "0", "0", "4"),
     selection |-> Hex("0", "0", "0", "0", "0", "5"),
     selectionText |-> Hex("0", "0", "0", "0", "0", "6"),
     ansi |-> [s \in AnsiSlots |->
                 Hex("a", "b", "c", "d", "e",
                     HexChars[CHOOSE i \in DOMAIN AnsiNames : AnsiNames[i] = s])]]

\* palettes of lowercase colours, beside those of the stored themes
RoundTripColours ==
    {TokyoNightColors, DEFAULT_THEME_COLORS, DistinctColors, FillThemeColors(NoRows)}

\* the round trip of C24 for the text of each palette of RoundTripColours, whatever the
\* name; a statement about the two functions, evaluated before the first call
KittyTextRoundTrip ==
    \A c \in RoundTripColours :
        AllLowerHex(c) =>
            KittyThemeColors(KittyScan(KittyTheme(c, Name_Nord), <<>>)) = c

\* C24: for a theme whose 22 colours are lowercase '#rrggbb' strings,
\* parseKitty of the file applyToKitty wrote returns the theme's colours,
\* and the line `colorN` of the file carries ANSI slot N (0 = black ... 15 =
\* brightWhite), the slot parseKitty reads it into.
C24_KittyRoundTrip ==
    /\ instLast.count = 0 => KittyTextRoundTrip
    /\ \A f \in disk :
           (f.content.format = "kitty" /\ AllLowerHex(ThemeColoursOf(f.content.name))) =>
               \A T \in {ThemeColoursOf(f.content.name)}, body \in {f.content.body} :
               \A out \in {ParseKitty(ParserPathOf(f, "conf"), TRUE, LinesContent(body))} :
                   /\ out.status = "ok"
                   /\ out.colors = T
                   /\ \A n \in 0..15 :
                         /\ Cardinality({i \in DOMAIN body : body[i].key = KittyColorKey(n)}) = 1
                         /\ \A i \in DOMAIN body :
                               body[i].key = KittyColorKey(n) =>
                                   /\ body[i].val = T.ansi[AnsiNames[n + 1]]
                                   /\ out.colors.ansi[AnsiNames[n + 1]] = body[i].val

\* applyTheme has written the Kitty file of 'Tokyo Night', none of whose
\* sixteen ANSI colours is the parser's built-in value
C24_Witness ==
    /\ LastCall("applyTheme", "kitty")
    /\ instLast.themeId = "t1"
    /\ instLast.result.success
    /\ \E f \in disk :
          /\ f.content.format = "kitty"
          /\ f.content.name = Name_TokyoNight
          /\ f.path.file[Len(f.path.file)] = ".conf"
          /\ AllLowerHex(ThemeColoursOf(f.content.name))
          /\ \A n \in 0..15 :
                ThemeColoursOf(f.content.name).ansi[AnsiNames[n + 1]] # KittyBuiltin(n)

(***************************************************************************)
(* C25: the flat colour map of parseAlacritty                              *)
(***************************************************************************)
\* the text of a colour value: '#' or '0x' and six hex digits, or six hex
\* digits alone, followed by anything
IsColourText(val) ==
    \/ Len(val) >= 7 /\ val[1] = "#" /\ \A i \in 2..7 : IsHexChar(val[i])
    \/ Len(val) >= 8 /\ val[1] = "0" /\ val[2] = "x" /\ \A i \in 3..8 : IsHexChar(val[i])
    \/ Len(val) >= 6 /\ \A i \in 1..6 : IsHexChar(val[i])

\* the six hex digits of a colour text
DigitsOf(val) ==
    IF val[1] = "#" THEN SubSeq(val, 2, 7)
    ELSE IF Len(val) >= 2 /\ val[2] = "x" THEN SubSeq(val, 3, 8)
    ELSE SubSeq(val, 1, 6)

\* the lines of a document after its first `colors:` line
InBlock(ls) == {i \in DOMAIN ls : \E j \in 1..(i - 1) : IsColorsHeader(ls[j])}

\* the lines `<word>:` of the block other than `colors:`
HeaderLines(ls) ==
    {i \in InBlock(ls) : /\ ls[i].key \notin {"", "#"}
                         /\ ls[i].sep \in {":", ": "}
                         /\ ls[i].quote = "" /\ ls[i].val = <<>>
                         /\ ls[i].key # "colors"}

\* the lines `<key>: <value>` of the block, the value quoted or not
PairLines(ls) ==
    {i \in InBlock(ls) : /\ IsWord(ls[i].key)
                         /\ ls[i].sep \in {":", ": "}
                         /\ IsColourText(ls[i].val)}

\* the word of the last header line before line i, "" when there is none
SectionAt(ls, i) ==
    LET hs == {j \in HeaderLines(ls) : j < i}
    IN  IF hs = {} THEN ""
        ELSE ls[CHOOSE j \in hs : \A k \in hs : k <= j].key

\* the flat key of pair line i: <<word, key>> stands for `word.key`
FlatKeyAt(ls, i) == <<SectionAt(ls, i), ls[i].key>>

\* the map the claim describes: each flat key of a pair line holds
\* '#' and the lowercased digits of the last pair line with that flat key
ExpectedFlatMap(ls) ==
    [fk \in {FlatKeyAt(ls, i) : i \in PairLines(ls)} |->
        LET is == {i \in PairLines(ls) : FlatKeyAt(ls, i) = fk}
            last == CHOOSE i \in is : \A k \in is : k <= i
        IN  <<"#">> \o ToLowerCase(DigitsOf(ls[last].val))]

\* documents of four lines: a value given twice under one header, a header
\* given twice, values before the `colors:` line
YamlDocuments ==
    [1..4 -> { Line("colors", ":", "", <<>>),
               Line("primary", ":", "", <<>>),
               Line("normal", ":", "", <<>>),
               Line("background", ": ", "'", Hex("A", "A", "B", "B", "C", "C")),
               Line("background", ": ", "", <<"0", "x", "d", "D", "e", "E", "f", "F">>),
               Line("background", ": ", "\"", Hex("0", "1", "0", "2", "0", "3")) }]

\* the flat map of each document of YamlDocuments is the expected one
YamlDocumentsFlatMap ==
    \A ls \in YamlDocuments : AlacrittyScan(ls, <<>>, "", FALSE) = ExpectedFlatMap(ls)

\* C25: the map parseAlacritty builds from a file holds, under the flat key
\* `<word>.<key>` of each `<key>: <value>` line that follows a header `<word>:`
\* inside the `colors:` block, the value of the last such line as lowercase
\* '#rrggbb', for values written '#rrggbb' or '0xrrggbb' with digits of either
\* case, quoted or not; a line before `colors:` sets nothing; the returned
\* colours are read from that map.
C25_AlacrittyFlatMap ==
    /\ (filePath = <<"theme", ".", "yaml">> /\ ~fileExists /\ parseOut.status = "none")
           => YamlDocumentsFlatMap
    /\ (invoked = {"parseAlacritty"} /\ fileExists) =>
           LET ls == SplitLines(fileContent)
               colors == AlacrittyScan(ls, <<>>, "", FALSE)
           IN  /\ colors = ExpectedFlatMap(ls)
               /\ parseOut.status = "ok"
               /\ parseOut.colors = AlacrittyThemeColors(ExpectedFlatMap(ls))
               /\ InBlock(ls) = {} => colors = <<>>
               /\ \A i \in PairLines(ls) :
                     /\ FlatKeyAt(ls, i) \in DOMAIN colors
                     /\ IsLowerHexColor(colors[FlatKeyAt(ls, i)])

\* a file whose `colors:` block gives red as 0x112233 under `normal:`, read
\* into the red slot as #112233
C25_Witness ==
    /\ invoked = {"parseAlacritty"}
    /\ fileExists
    /\ fileContent.kind = "lines"
    /\ fileContent.lines =
         << Line("colors", ":", "", <<>>), Line("normal", ":", "", <<>>),
            Line("red", ": ", "", <<"0", "x", "1", "1", "2", "2", "3", "3">>) >>
    /\ parseOut.colors.ansi.red = Hex("1", "1", "2", "2", "3", "3")

(***************************************************************************)
(* C26: the lines of the user in the PowerShell profile                    *)
(***************************************************************************)
\* text.split('\n'): the lines of a profile text, each a sequence of tokens
RECURSIVE LinesOf(_)
LinesOf(text) ==
    LET nls == {i \in DOMAIN text : text[i] = NL}
    IN  IF nls = {} THEN <<text>>
        ELSE LET n == CHOOSE i \in nls : \A j \in nls : i <= j
             IN  <<SubSeq(text, 1, n - 1)>> \o LinesOf(SubSeq(text, n + 1, Len(text)))

\* the lines an injection writes: a header line, a line of the script of
\* some theme, and the body line of the block of the theme 'Old'
InjectedLine(line) ==
    \/ line[1] = HDR
    \/ line = <<TXT("old block")>>
    \/ \E t \in PSThemes :
          \E i \in DOMAIN LinesOf(PsColorScript(t.colors, t.name)) :
              LinesOf(PsColorScript(t.colors, t.name))[i] = line

IsUserLine(line) == line # <<>> /\ ~InjectedLine(line)

\* the non-empty lines of a profile that no injection wrote, in order
UserLinesOf(text) == SelectSeq(LinesOf(text), IsUserLine)

\* a is b with some elements left out
RECURSIVE IsSubseq(_, _)
IsSubseq(a, b) ==
    IF a = <<>> THEN TRUE
    ELSE IF b = <<>> THEN FALSE
    ELSE IF Head(a) = Head(b) THEN IsSubseq(Tail(a), Tail(b))
    ELSE IsSubseq(a, Tail(b))

\* C26: applyToPowerShell keeps every line of the existing profile that no
\* injection wrote: these lines are lines of the rewritten profile, in the
\* same relative order.
C26_UserLinesKept ==
    [][PSApply => IsSubseq(UserLinesOf(psFile.text), LinesOf(psFile'.text))]_vars

(***************************************************************************)
(* C29: imports keep the themes table's keys unique                        *)
(***************************************************************************)
\* C29: after any sequence of imports into a table that satisfies its
\* constraints, the slugs of the rows are pairwise different and so are the
\* (name, author) pairs; no INSERT of an import is refused; the slug and the
\* name an import returns were not in the table before it and are those of a
\* row now; generateUniqueSlug and generateUniqueName return after at most as
\* many rounds as the table has rows.
C29_ImportsKeepUnique ==
    /\ \A r1 \in dbThemes, r2 \in dbThemes :
          r1 # r2 => /\ r1.id # r2.id
                     /\ r1.slug # r2.slug
                     /\ <<r1.name, r1.author>> # <<r2.name, r2.author>>
    /\ impLast.outcome # "constraint"
    /\ impLast.outcome = "ok" =>
          /\ \A r \in impLast.before :
                /\ r.slug # impLast.slug
                /\ <<r.name, r.author>> # <<impLast.name, "Imported">>
          /\ \E r \in dbThemes \ impLast.before :
                /\ r.slug = impLast.slug /\ r.name = impLast.name /\ r.author = "Imported"
                /\ dbThemes = impLast.before \cup {r}
          /\ impLast.slugCounter <= Cardinality(impLast.before) + 1
          /\ impLast.nameCounter <= Cardinality(impLast.before) + 1

\* a file named Nord imported three times into the table that holds the
\* built-in Nord: Nord, Nord (1) and Nord (2), with the slugs nord-1, nord-2
\* and nord-3
C29_Witness ==
    /\ impLast.count = 3
    /\ impLast.outcome = "ok"
    /\ impLast.name = Name_Nord \o <<" ", "(", "2", ")">>
    /\ impLast.slug = BaseSlug(Name_Nord) \o <<"-", "3">>
    /\ \E r \in dbThemes : r.author = "NULL" /\ r.name = Name_Nord
    /\ \E r \in dbThemes : r.author = "Imported" /\ r.name = Name_Nord
    /\ \E r \in dbThemes : r.author = "Imported" /\ r.name = Name_Nord1

(***************************************************************************)
(* C30: iTerm2 profile documents read back                                 *)
(***************************************************************************)
\* the two hex digits of a byte
ByteText(b) == PadStart2(ToString16(b))

\* every byte, written as a component in each of the three channels and read
\* back, is the same byte; the rounding also absorbs an error of 1/255000 on
\* the written component, far above that of the division and of the product
\* in double precision
ByteRoundTrip ==
    \A b \in 0..255 :
        /\ LET hex == <<"#">> \o ByteText(b) \o ByteText(255 - b) \o ByteText((b * 7) % 256)
               dict == HexToItermColorDict(hex)
           IN  /\ MathRound255(dict.r) = b
               /\ MathRound255(dict.g) = 255 - b
               /\ MathRound255(dict.b) = (b * 7) % 256
               /\ GetColorDict([k \in {"Cursor Color"} |-> dict], "Cursor Color") = hex
        /\ \A e \in {-1, 0, 1} :
              MathRound255(Comp(b * 1000 + e, 255 * 1000)) = b

\* the round trip of C30 for the document of each palette of RoundTripColours
ItermTextRoundTrip ==
    \A c \in RoundTripColours :
        LET out == ParseJson(<<"nord", ".", "json">>, TRUE,
                             JsonContent(ItermProfile(c, Name_Nord)))
        IN  AllLowerHex(c) => out.status = "ok" /\ out.name = Name_Nord /\ out.colors = c

\* C30: every byte 0..255 written as the component b/255 is read back by
\* round(c * 255) as b; parseJson of the dynamic-profile document that
\* installToIterm2 wrote for a theme with lowercase '#rrggbb' colours returns
\* the theme's name and its 22 colours, and the entry `Ansi N Color` of the
\* document reads as the colour of ANSI slot N.
C30_ItermRoundTrip ==
    /\ instLast.count = 0 => (ByteRoundTrip /\ ItermTextRoundTrip)
    /\ \A f \in disk :
          (/\ f.content.format = "iterm2"
           /\ PrefixOf(f) = ""
           /\ AllLowerHex(GetThemeColors(Store[f.content.guid[1]].rows))) =>
              \A id \in {f.content.guid[1]}, doc \in {f.content.body} :
              \A T \in {GetThemeColors(Store[id].rows)},
                 out \in {ParseJson(ParserPathOf(f, "json"), TRUE, JsonContent(doc))} :
                  /\ out.status = "ok"
                  /\ out.name = GetThemeName(Store[id].name)
                  /\ out.colors = T
                  /\ Len(doc.profiles) = 1
                  /\ \A n \in 0..15 :
                        GetColorDict(doc.profiles[1].dict, PlistAnsiKey(n))
                            = T.ansi[AnsiNames[n + 1]]

\* installToIterm2 has written the profile of 'Tokyo Night', whose red
\* (#f7768e) is the entry Ansi 1 Color with the components 247/255, 118/255
\* and 142/255
C30_Witness ==
    /\ LastCall("installToIterm2", "none")
    /\ instLast.themeId = "t1"
    /\ instLast.result.success
    /\ \E f \in disk :
          /\ f.content.format = "iterm2"
          /\ PrefixOf(f) = ""
          /\ f.content.name = Name_TokyoNight
          /\ f.content.body.profiles[1].dict["Ansi 1 Color"]
                = ColorDict(Comp(247, 255), Comp(118, 255), Comp(142, 255))

====
